---------------------------- MODULE Spec2Model ----------------------------
(***************************************************************************)
(* Adaptive chatter detector (chatter-waveshare-s3/src/adaptive_chatter.h) *)
(*                                                                         *)
(* The model covers AdaptiveChatterDetector (update, updateState,          *)
(* recordChatterEvent, confirmChatterResolved, startCalibration, setters), *)
(* ChatterMemory (recordEvent, markResolved, predictFeedReduction,         *)
(* getPredictedChatterRange, saveToFlash, loadFromFlash) and the           *)
(* calibration counters of FrequencyBandAnalyzer and VibrationTracker, and *)
(* the AdvancedDSP engine of advanced_dsp.h (setters, sample buffers and   *)
(* the weighted fusion of analyze) as an object on its own.                *)
(*                                                                         *)
(* Numbers.  The code computes in 32-bit floats.  Scores are modelled in   *)
(* points on a grid of ScoreGrid, the raw score of one cycle in hundredths *)
(* of a point, weights of predictFeedReduction in thousandths; every division   *)
(* rounds down.  Frequencies are whole Hz, feed rates whole percent,       *)
(* 0..1 features are hundredths.  millis() is the variable now.            *)
(***************************************************************************)
EXTENDS Integers, Sequences, FiniteSets, TLC

VARIABLES
    \* ---- AdaptiveChatterDetector
    currentState,        \* State enum
    smoothedScore,       \* float smoothedScore (points)
    spindleRPM,          \* float spindleRPM
    feedRate,            \* float feedRate (%)
    suggestedFeed,       \* float suggestedFeed
    interventionFeed,    \* float interventionFeed
    usingLearnedData,    \* bool usingLearnedData
    lastChatterTime,     \* unsigned long lastChatterTime
    lastAdvResult,       \* AdvancedDSP::AdvancedResult lastAdvResult
    dspAnalyzed,         \* AdvancedDSP buffers: the inputs last pushed by analyze()
    \* ---- FrequencyBandAnalyzer / VibrationTracker
    calibrationSamples,  \* int calibrationSamples
    calibrated,          \* bool calibrated
    vibBaselineCount,    \* VibrationTracker::baseline.n
    vibRecentHasData,    \* VibrationTracker::recent.n > 0
    \* ---- ChatterMemory
    events,              \* std::vector<ChatterEvent> events
    chatterFreqHistogram,\* uint16_t chatterFreqHistogram[100]
    prefs,               \* Preferences (flash key/value store)
    \* ---- environment
    now,                 \* value millis() returns
    \* ---- history (not program state)
    op,                  \* the operation that ran last
    prevState,           \* currentState before that operation
    dominantFreq,        \* local dominantFreq of the last scoring update
    run,                 \* shape of the score sequence since calibration
    log,                 \* every event recorded so far, as last mutated
    calls,               \* how often each bounded operation has run
    \* ---- a RunningStats object on its own
    stats,               \* n, mean, M2, minVal, maxVal
    \* ---- an AdvancedDSP object on its own
    advancedDSP,         \* stabilityLobe, stallGuard, crestAnalyzer, crossCorr, freqTracker
    dspTrace             \* history: the last call's inputs, result and buffer accesses

vars == << currentState, smoothedScore, spindleRPM, feedRate, suggestedFeed,
           interventionFeed, usingLearnedData, lastChatterTime, lastAdvResult,
                    dspAnalyzed,
           calibrationSamples, calibrated, vibBaselineCount, vibRecentHasData,
           events, chatterFreqHistogram, prefs, now,
           op, prevState, dominantFreq, run, log, calls, stats,
           advancedDSP, dspTrace >>

detectorVars == << currentState, smoothedScore, spindleRPM, feedRate, suggestedFeed,
                   interventionFeed, usingLearnedData, lastChatterTime, lastAdvResult,
                    dspAnalyzed,
                   calibrationSamples, calibrated, vibBaselineCount, vibRecentHasData, now,
                   prevState, dominantFreq, run >>

(***************************************************************************)
(* Program constants                                                       *)
(***************************************************************************)
MAX_EVENTS == 50
MIN_CALIBRATION_SAMPLES == 100
VIB_MIN_BASELINE == 50
HISTOGRAM_BINS == 100
SAVED_EVENTS == 10
DEFAULT_PEAK_BIN == 20
DEFAULT_REDUCTION == 20
RECOVERY_MS == 5000
UINT16_MOD == 65536
CREST_BUFFER_SIZE == 256
CORR_BUF_SIZE == 64
HISTORY_SIZE == 50
SG_BUFFER_SIZE == 32
SG_AXES == 3

(***************************************************************************)
(* Bounds of the model                                                     *)
(***************************************************************************)
ScoreGrid == 5           \* resolution of a stored score, in points
MaxNow == 10002          \* the clock stops advancing here
MaxEv == 2               \* events a detector run may record
MaxCount == 5            \* a histogram counter stays at or below this
MaxRecal == 1            \* startCalibration calls in a detector run
MaxRecords == 52         \* recordEvent calls in a run of the memory alone
MaxStored == 12          \* recordEvent calls in a run of memory and flash
MaxResolves == 2         \* markResolved calls in a run of the memory
MaxRestarts == 2         \* restarts in a run of memory and flash
MaxLost == 2             \* records lost from flash in a run
MaxFaultStored == 3      \* recordEvent calls in a run with lost records
MaxGlitch == 52          \* non-finite vibration samples in one calibration
MaxRangeEvents == 3      \* recordEvent calls in a run over many frequencies
MaxPushes == 6           \* finite samples pushed into a RunningStats object
MaxLobeAnalyses == 11    \* analyze calls in a run of the AdvancedDSP setters
MaxLobePushes == 12      \* stall-guard values pushed in such a run
MaxRingAnalyses == 258   \* analyze calls in a run through the buffers' wrap
MaxSgPushes == 34        \* stall-guard values accepted in such a run

Min(a, b) == IF a < b THEN a ELSE b
Max(a, b) == IF a > b THEN a ELSE b
Abs(a) == IF a < 0 THEN -a ELSE a

States == {"CALIBRATING", "MONITORING", "WARNING", "CHATTER", "RECOVERING"}


(***************************************************************************)
(* ChatterMemory                                                           *)
(***************************************************************************)
\* struct ChatterEvent
ChatterEvent(f, rpm, feed, sev, red, res, ts) ==
    [frequency |-> f, spindleRPM |-> rpm, feedRate |-> feed, severity |-> sev,
     feedReduction |-> red, resolved |-> res, timestamp |-> ts]

NoEvent == ChatterEvent(0, 0, 0, 0, 0, FALSE, 0)

ZeroHistogram == [b \in 0..(HISTOGRAM_BINS - 1) |-> 0]

\* A Preferences namespace holding no key.
EmptyPrefs ==
    [hasHistogram |-> FALSE, histogram |-> ZeroHistogram,
     hasEventCount |-> FALSE, eventCount |-> 0,
     hasEvt |-> [i \in 0..(SAVED_EVENTS - 1) |-> FALSE],
     evt |-> [i \in 0..(SAVED_EVENTS - 1) |-> NoEvent]]

\* (int)(frequency / 100)
FreqBin(f) == f \div 100

\* chatterFreqHistogram[bin] += k, on uint16_t, when 0 <= bin < 100
BumpHistogram(hist, bin, k) ==
    IF bin >= 0 /\ bin < HISTOGRAM_BINS
    THEN [hist EXCEPT ![bin] = (@ + k) % UINT16_MOD]
    ELSE hist

\* How many of the newest events saveToFlash writes / loadFromFlash reads.
SavedCount(n) == Min(SAVED_EVENTS, n)

\* saveToFlash(): "histogram", "eventCount", and evt0.. = the newest events,
\* evt0 the newest; keys it does not write keep their old value.
saveToFlash(ev, hist, p) ==
    [hasHistogram |-> TRUE, histogram |-> hist,
     hasEventCount |-> TRUE, eventCount |-> Len(ev),
     hasEvt |-> [i \in 0..(SAVED_EVENTS - 1) |->
                    IF i < SavedCount(Len(ev)) THEN TRUE ELSE p.hasEvt[i]],
     evt |-> [i \in 0..(SAVED_EVENTS - 1) |->
                    IF i < SavedCount(Len(ev)) THEN ev[Len(ev) - i] ELSE p.evt[i]]]

\* Mutant of LoadEvents: the keys are read in ascending order, evt0 first.
RECURSIVE LoadEventsAscending(_, _)
LoadEventsAscending(p, i) ==
    IF i < 0 THEN << >>
    ELSE LoadEventsAscending(p, i - 1) \o (IF p.hasEvt[i] THEN << p.evt[i] >> ELSE << >>)

\* Mutant of LoadEvents: the size returned by getBytes is not checked.
RECURSIVE LoadEventsUnchecked(_, _)
LoadEventsUnchecked(p, i) ==
    IF i < 0 THEN << >>
    ELSE << p.evt[i] >> \o LoadEventsUnchecked(p, i - 1)

\* The loop of loadFromFlash(): for (i = start; i >= 0; i--) push evt<i> if stored.
RECURSIVE LoadEvents(_, _)
LoadEvents(p, i) ==
    IF i < 0 THEN << >>
    ELSE (IF p.hasEvt[i] THEN << p.evt[i] >> ELSE << >>) \o LoadEvents(p, i - 1)

\* First index loadFromFlash reads: min(9, count - 1)
LoadStart(count) == Min(SAVED_EVENTS - 1, count - 1)

\* loadFromFlash() into a freshly constructed ChatterMemory (histogram {0}).
loadFromFlash(p) ==
    [histogram |-> IF p.hasHistogram THEN p.histogram ELSE ZeroHistogram,
     events |-> LoadEvents(p, LoadStart(IF p.hasEventCount THEN p.eventCount ELSE 0))]

\* Mutant of AppendEvicting: beyond MAX_EVENTS the newest event is dropped.
AppendDroppingNewest(ev, e) ==
    LET all == Append(ev, e)
    IN  IF Len(all) > MAX_EVENTS THEN SubSeq(all, 1, MAX_EVENTS) ELSE all

\* events after push_back and the erase of the oldest beyond MAX_EVENTS
AppendEvicting(ev, e) ==
    LET all == Append(ev, e)
    IN  IF Len(all) > MAX_EVENTS THEN Tail(all) ELSE all

\* recordEvent(event): the memory after the call
recordEvent(ev, hist, p, e) ==
    LET ev2 == AppendEvicting(ev, e)
        hist2 == BumpHistogram(hist, FreqBin(e.frequency), 1)
    IN  [events |-> ev2, histogram |-> hist2, prefs |-> saveToFlash(ev2, hist2, p)]

\* Mutant of learnSuccess: the neighbouring bin is reinforced as well.
learnSuccessSpread(hist, e) ==
    BumpHistogram(BumpHistogram(hist, FreqBin(e.frequency), 2),
                  FreqBin(e.frequency) + 1, 2)

\* learnSuccess(e)
learnSuccess(hist, e) == BumpHistogram(hist, FreqBin(e.frequency), 2)

\* Mutant of markResolved: the change is not written to flash.
markResolvedUnsaved(ev, hist, p, red) ==
    IF ev = << >>
    THEN [events |-> ev, histogram |-> hist, prefs |-> p]
    ELSE LET ev2 == [ev EXCEPT ![Len(ev)] =
                        [@ EXCEPT !.resolved = TRUE, !.feedReduction = red]]
         IN  [events |-> ev2, histogram |-> learnSuccess(hist, ev2[Len(ev2)]),
              prefs |-> p]

\* markResolved(feedReduction): the memory after the call
markResolved(ev, hist, p, red) ==
    IF ev = << >>
    THEN [events |-> ev, histogram |-> hist, prefs |-> p]
    ELSE LET ev2 == [ev EXCEPT ![Len(ev)] =
                        [@ EXCEPT !.resolved = TRUE, !.feedReduction = red]]
             hist2 == learnSuccess(hist, ev2[Len(ev2)])
         IN  [events |-> ev2, histogram |-> hist2, prefs |-> saveToFlash(ev2, hist2, p)]

\* exp(-x), x and the result in thousandths: e^-n by powers of 0.368,
\* e^-f (0 <= f < 1) by its Taylor polynomial of degree 4.
RECURSIVE ExpNegInt(_)
ExpNegInt(n) == IF n = 0 THEN 1000 ELSE IF n > 6 THEN 0 ELSE (368 * ExpNegInt(n - 1)) \div 1000

ExpNeg(x) ==
    LET n == x \div 1000
        f == x % 1000
        frac == 1000 - f + (f * f) \div 2000 - (f * f * f) \div 6000000
                + (((f * f) \div 1000) * ((f * f) \div 1000)) \div 24000
    IN  (ExpNegInt(n) * frac) \div 1000

\* weight = exp(-(|df| / 500 + |drpm| / 3000)), in thousandths
Similarity(e, frequency, rpm) ==
    ExpNeg(Abs(e.frequency - frequency) * 2 + Abs(e.spindleRPM - rpm) \div 3)

\* Mutant of TotalWeight: unresolved events are weighed too.
RECURSIVE TotalWeightOfAll(_, _, _, _)
TotalWeightOfAll(ev, i, frequency, rpm) ==
    IF i > Len(ev) THEN 0
    ELSE Similarity(ev[i], frequency, rpm) + TotalWeightOfAll(ev, i + 1, frequency, rpm)

\* The loop of predictFeedReduction from event i on: totalWeight
RECURSIVE TotalWeight(_, _, _, _)
TotalWeight(ev, i, frequency, rpm) ==
    IF i > Len(ev) THEN 0
    ELSE (IF ev[i].resolved THEN Similarity(ev[i], frequency, rpm) ELSE 0)
         + TotalWeight(ev, i + 1, frequency, rpm)

\* The loop of predictFeedReduction from event i on: weightedReduction
RECURSIVE WeightedReduction(_, _, _, _)
WeightedReduction(ev, i, frequency, rpm) ==
    IF i > Len(ev) THEN 0
    ELSE (IF ev[i].resolved
          THEN Similarity(ev[i], frequency, rpm) * ev[i].feedReduction ELSE 0)
         + WeightedReduction(ev, i + 1, frequency, rpm)

\* predictFeedReduction(frequency, spindleRPM)
predictFeedReduction(ev, frequency, rpm) ==
    LET totalWeight == TotalWeight(ev, 1, frequency, rpm)
        weightedReduction == WeightedReduction(ev, 1, frequency, rpm)
    IN  IF totalWeight > 100 THEN weightedReduction \div totalWeight
        ELSE DEFAULT_REDUCTION

\* Mutant of PeakBin: with nothing learned the scan's first bin is the peak.
PeakBinFirstScanned(hist) ==
    LET hit == {i \in 5..79 : hist[i] > 0}
    IN  IF hit = {} THEN 5
        ELSE CHOOSE i \in hit :
                \A j \in hit : hist[j] < hist[i] \/ (hist[j] = hist[i] /\ j >= i)

\* Mutant of PeakBin: every bin of the histogram is scanned.
PeakBinAnywhere(hist) ==
    LET hit == {i \in 0..(HISTOGRAM_BINS - 1) : hist[i] > 0}
    IN  IF hit = {} THEN DEFAULT_PEAK_BIN
        ELSE CHOOSE i \in hit :
                \A j \in hit : hist[j] < hist[i] \/ (hist[j] = hist[i] /\ j >= i)

\* The scan of getPredictedChatterRange over bins 5..79: maxCount starts at 0
\* and a bin replaces the peak only when its count is strictly greater, so the
\* result is the lowest bin holding the greatest non-zero count, and the
\* default bin 20 when every scanned bin is 0.
PeakBin(hist) ==
    LET hit == {i \in 5..79 : hist[i] > 0}
    IN  IF hit = {} THEN DEFAULT_PEAK_BIN
        ELSE CHOOSE i \in hit :
                \A j \in hit : hist[j] < hist[i] \/ (hist[j] = hist[i] /\ j >= i)

\* getPredictedChatterRange(spindleRPM, lowHz, highHz)
getPredictedChatterRange(hist) ==
    LET peakBin == PeakBin(hist)
    IN  [lowHz |-> Max(500, (peakBin - 5) * 100),
         highHz |-> Min(8000, (peakBin + 5) * 100)]

\* getResolvedCount()
getResolvedCount(ev) == Cardinality({i \in 1..Len(ev) : ev[i].resolved})


\* A float handed to RunningStats::push: a finite value (in thousandths), NaN
\* or an infinity
Finite(v) == [kind |-> "finite", value |-> v]
NaN == [kind |-> "nan", value |-> 0]
PosInf == [kind |-> "posinf", value |-> 0]
NegInf == [kind |-> "neginf", value |-> 0]

\* isfinite(x)
IsFinite(x) == x.kind = "finite"

\* a < b on floats, neither of them NaN
Less(a, b) ==
    CASE a.kind = "posinf" -> FALSE
      [] b.kind = "neginf" -> FALSE
      [] a.kind = "neginf" -> TRUE
      [] b.kind = "posinf" -> TRUE
      [] OTHER -> a.value < b.value

\* RunningStats as constructed and after clear()
ClearStats == [n |-> 0, mean |-> 0, M2 |-> 0, minVal |-> PosInf, maxVal |-> NegInf]

\* Mutant of Push: the sample is not tested with isfinite.
PushUnguarded(st, x) ==
    LET n2 == st.n + 1
        delta == x.value - st.mean
        mean2 == st.mean + delta \div n2
        delta2 == x.value - mean2
    IN  [n |-> n2, mean |-> mean2, M2 |-> st.M2 + (delta * delta2) \div 1000,
         minVal |-> IF Less(x, st.minVal) THEN x ELSE st.minVal,
         maxVal |-> IF Less(st.maxVal, x) THEN x ELSE st.maxVal]

\* RunningStats::push(x): Welford's update, skipped for a non-finite x
Push(st, x) ==
    IF ~IsFinite(x) THEN st
    ELSE LET n2 == st.n + 1
             delta == x.value - st.mean
             mean2 == st.mean + delta \div n2
             delta2 == x.value - mean2
         IN  [n |-> n2, mean |-> mean2, M2 |-> st.M2 + (delta * delta2) \div 1000,
              minVal |-> IF Less(x, st.minVal) THEN x ELSE st.minVal,
              maxVal |-> IF Less(st.maxVal, x) THEN x ELSE st.maxVal]

(***************************************************************************)
(* FrequencyBandAnalyzer / VibrationTracker: calibration bookkeeping       *)
(***************************************************************************)
\* RunningStats::push on the count n: non-finite samples are rejected
PushCount(n, finite) == IF finite THEN n + 1 ELSE n

\* Mutant of BandCalibrated: one more sample is asked for.
BandCalibratedLate(samples) == samples > MIN_CALIBRATION_SAMPLES

\* FrequencyBandAnalyzer::updateBaseline flips calibrated at this count
BandCalibrated(samples) == samples >= MIN_CALIBRATION_SAMPLES

\* Mutant of VibCalibrated: the tracker asks for as many samples as the bands
\* and one more.
VibCalibratedLate(n) == n > MIN_CALIBRATION_SAMPLES

\* Mutant of VibCalibrated: the tracker reports calibrated from the start.
VibCalibratedFromStart(n) == n >= 0

\* VibrationTracker::isCalibrated()
VibCalibrated(n) == n >= VIB_MIN_BASELINE

(***************************************************************************)
(* AdvancedDSP (chatter-waveshare-s3/src/advanced_dsp.h) driven directly   *)
(*                                                                         *)
(* The sample buffers are modelled by their head indexes and counts.  What *)
(* the analyzers compute from the samples (0..1 features, in hundredths)   *)
(* is an input of analyze; the tests on counts and RPM that replace a      *)
(* feature by a fixed value are modelled.  toothPassFreq is in thousandths *)
(* of a Hz.                                                                *)
(***************************************************************************)
\* a % b on int as C++ computes it: the result has the sign of a
CRem(a, b) == IF a >= 0 THEN a % b ELSE -((-a) % b)

\* Axes of sgBuffer[3][SG_BUFFER_SIZE]
Axes == 0..(SG_AXES - 1)

\* AdvancedDSP as constructed
NewAdvancedDSP ==
    [stabilityLobe |-> [teeth |-> 2, spindleRPM |-> 0, toothPassFreq |-> 0],
     stallGuard    |-> [sgIdx |-> [a \in Axes |-> 0], sgCount |-> [a \in Axes |-> 0]],
     crestAnalyzer |-> [bufIdx |-> 0, count |-> 0],
     crossCorr     |-> [micIdx |-> 0, imuIdx |-> 0],
     freqTracker   |-> [histIdx |-> 0, count |-> 0]]

\* ---- StabilityLobePredictor
\* (rpm * teeth) / 60.0f
ToothPassFreq(rpm, teeth) == (rpm * teeth * 1000) \div 60

\* StabilityLobePredictor::setToolParams(numTeeth, toolDiameter)
LobeSetToolParams(lobe, numTeeth) == [lobe EXCEPT !.teeth = numTeeth]

\* StabilityLobePredictor::setSpindleRPM(rpm)
LobeSetSpindleRPM(lobe, rpm) ==
    [lobe EXCEPT !.spindleRPM = rpm, !.toothPassFreq = ToothPassFreq(rpm, lobe.teeth)]

\* StabilityLobePredictor::scoreFrequency: 0.5 without RPM data, else the
\* score m of the distance to the nearest predicted frequency
scoreFrequency(lobe, m) == IF lobe.spindleRPM < 100 THEN 50 ELSE m

\* ---- CrestFactorAnalyzer
\* CrestFactorAnalyzer::push(sample)
CrestPush(c) ==
    [bufIdx |-> CRem(c.bufIdx + 1, CREST_BUFFER_SIZE),
     count  |-> IF c.count < CREST_BUFFER_SIZE THEN c.count + 1 ELSE c.count]

\* Indexes of buffer[] that getCrestFactor reads
CrestReads(c) == IF c.count < 10 THEN {} ELSE 0..(c.count - 1)

\* CrestFactorAnalyzer::getChatterScore: crest factor 0 (fewer than 10
\* samples) scores 0.1, else the score s of the crest factor
CrestChatterScore(c, s) == IF c.count < 10 THEN 10 ELSE s

\* ---- CrossCorrelator
\* CrossCorrelator::pushMic(v)
pushMic(x) == [x EXCEPT !.micIdx = CRem(@ + 1, CORR_BUF_SIZE)]

\* CrossCorrelator::pushIMU(v)
pushIMU(x) == [x EXCEPT !.imuIdx = CRem(@ + 1, CORR_BUF_SIZE)]

\* Indexes of micBuf[] and imuBuf[] that getCorrelation reads
CorrReads == 0..(CORR_BUF_SIZE - 1)

\* ---- FrequencyTracker
\* Mutant of TrackerPush: the head index is not wrapped.
TrackerPushUnwrapped(t) ==
    [histIdx |-> t.histIdx + 1,
     count   |-> IF t.count < HISTORY_SIZE THEN t.count + 1 ELSE t.count]

\* FrequencyTracker::push(frequency, amplitude)
TrackerPush(t) ==
    [histIdx |-> CRem(t.histIdx + 1, HISTORY_SIZE),
     count   |-> IF t.count < HISTORY_SIZE THEN t.count + 1 ELSE t.count]

\* Indexes of freqHistory[] that getFrequencyStability reads
StabilityReads(t) == IF t.count < 10 THEN {} ELSE 0..(t.count - 1)

\* FrequencyTracker::getFrequencyStability: 0 with fewer than 10 entries,
\* else the score s of the coefficient of variation
getFrequencyStability(t, s) == IF t.count < 10 THEN 0 ELSE s

\* Indexes of ampHistory[] that isAmplitudeGrowing reads: oldIdx and newIdx
GrowthReads(t) ==
    IF t.count < 20 THEN {}
    ELSE LET halfCount == t.count \div 2
         IN  UNION { { CRem(t.histIdx - t.count + i + HISTORY_SIZE, HISTORY_SIZE),
                       CRem(t.histIdx - halfCount + i + HISTORY_SIZE, HISTORY_SIZE) } :
                     i \in 0..(halfCount - 1) }

\* ---- StallGuardAnalyzer
\* StallGuardAnalyzer::pushSG(axis, sgValue)
pushSG(sg, axis) ==
    IF axis >= 0 /\ axis < SG_AXES
    THEN [sgIdx   |-> [sg.sgIdx EXCEPT ![axis] = CRem(@ + 1, SG_BUFFER_SIZE)],
          sgCount |-> [sg.sgCount EXCEPT ![axis] =
                          IF @ < SG_BUFFER_SIZE THEN @ + 1 ELSE @]]
    ELSE sg

\* Indexes of sgBuffer[axis][] that pushSG(axis, sgValue) writes
SgWrites(sg, axis) ==
    IF axis >= 0 /\ axis < SG_AXES THEN {sg.sgIdx[axis]} ELSE {}

\* Indexes of sgBuffer[axis][] that getOscillationScore(axis) reads: idx and
\* prevIdx
OscillationReads(sg, axis) ==
    IF axis < 0 \/ axis >= SG_AXES THEN {}
    ELSE IF sg.sgCount[axis] < 10 THEN {}
    ELSE UNION { LET idx == CRem(sg.sgIdx[axis] - sg.sgCount[axis] + i + SG_BUFFER_SIZE,
                                 SG_BUFFER_SIZE)
                 IN  { idx, CRem(idx - 1 + SG_BUFFER_SIZE, SG_BUFFER_SIZE) } :
                 i \in 1..(sg.sgCount[axis] - 1) }

\* StallGuardAnalyzer::getCombinedScore: the highest getOscillationScore, which
\* is 0 for an axis with fewer than 10 values, else the score s of the
\* crossing rate
getCombinedScore(sg, s) ==
    IF \E a \in Axes : sg.sgCount[a] >= 10 THEN s ELSE 0

\* StallGuardAnalyzer::hasData()
hasData(sg) == sg.sgCount[0] > 10 \/ sg.sgCount[1] > 10 \/ sg.sgCount[2] > 10

\* ---- AdvancedDSP::analyze
\* What the spectrum and the samples of one call make the analyzers return
\* once they have data: harmonicDetector.analyze, getNarrowScore,
\* getFrequencyStability, scoreFrequency, getOscillationScore, and the crest
\* score of getChatterScore.
Features(h, n, s, l, g, c) ==
    [harmonicStrength |-> h, spectralNarrowness |-> n, freqStability |-> s,
     stabilityLobeMatch |-> l, stallGuardScore |-> g, crestScore |-> c]

\* Broadband noise, no harmonics
NoiseFeatures == Features(0, 20, 20, 20, 10, 10)
\* Harmonic chatter that every analyzer sees
ChatterFeatures == Features(100, 100, 100, 100, 100, 100)
\* Harmonic and stable, but off the predicted lobes and broad
HarmonicFeatures == Features(100, 20, 100, 20, 100, 10)
\* Narrow and on a lobe, without harmonics
TonalFeatures == Features(0, 100, 20, 100, 10, 100)
FeatureSet == {NoiseFeatures, ChatterFeatures, HarmonicFeatures, TonalFeatures}

\* The sub-scores of one call: r.harmonicStrength .. r.stallGuardScore and
\* crestAnalyzer.getChatterScore()
SubScores(d, f) ==
    [harmonicStrength   |-> f.harmonicStrength,
     spectralNarrowness |-> f.spectralNarrowness,
     freqStability      |-> getFrequencyStability(d.freqTracker, f.freqStability),
     stabilityLobeMatch |-> scoreFrequency(d.stabilityLobe, f.stabilityLobeMatch),
     stallGuardScore    |-> getCombinedScore(d.stallGuard, f.stallGuardScore),
     crestScore         |-> CrestChatterScore(d.crestAnalyzer, f.crestScore)]

\* Mutant of WeightedFusion: every weight is in the denominator.
WeightedFusionAllWeights(r, toothPassFreq, stallData) ==
    LET score == r.harmonicStrength * 30 + r.spectralNarrowness * 20
                   + r.freqStability * 15
                   + (IF toothPassFreq > 10000 THEN r.stabilityLobeMatch * 20 ELSE 0)
                   + (IF stallData THEN r.stallGuardScore * 25 ELSE 0)
                   + r.crestScore * 10
    IN  score \div 120

\* The weighted fusion: r.chatterScore = (score / weights) * 100, in points
WeightedFusion(r, toothPassFreq, stallData) ==
    LET score == r.harmonicStrength * 30 + r.spectralNarrowness * 20
                   + r.freqStability * 15
                   + (IF toothPassFreq > 10000 THEN r.stabilityLobeMatch * 20 ELSE 0)
                   + (IF stallData THEN r.stallGuardScore * 25 ELSE 0)
                   + r.crestScore * 10
        weights == 30 + 20 + 15 + (IF toothPassFreq > 10000 THEN 20 ELSE 0)
                     + (IF stallData THEN 25 ELSE 0) + 10
    IN  IF weights > 0 THEN score \div weights ELSE 0

\* No buffer index touched
NoAccess == [crest |-> {}, mic |-> {}, imu |-> {}, tracker |-> {}, sg |-> {}]

\* Nothing analyzed yet
NoDspTrace ==
    [analyses |-> 0, sgPushes |-> 0, axis |-> 0,
     features |-> Features(0, 0, 0, 0, 0, 0),
     result |-> Features(0, 0, 0, 0, 0, 0), chatterScore |-> 0,
     writes |-> NoAccess, reads |-> NoAccess]

\* The detector and the RunningStats object are not involved
DspFrame ==
    /\ UNCHANGED << events, chatterFreqHistogram, prefs, log, calls, stats >>
    /\ UNCHANGED detectorVars

\* AdvancedDSP::setToolParams(teeth, diameter)
DspSetToolParams(teeth) ==
    /\ op' = "setToolParams"
    /\ advancedDSP' = [advancedDSP EXCEPT !.stabilityLobe = LobeSetToolParams(@, teeth)]
    /\ UNCHANGED dspTrace
    /\ DspFrame

\* AdvancedDSP::setSpindleRPM(rpm)
DspSetSpindleRPM(rpm) ==
    /\ op' = "lobeSetSpindleRPM"
    /\ advancedDSP' = [advancedDSP EXCEPT !.stabilityLobe = LobeSetSpindleRPM(@, rpm)]
    /\ UNCHANGED dspTrace
    /\ DspFrame

\* AdvancedDSP::pushStallGuard(axis, sg)
DspPushStallGuard(axis) ==
    /\ op' = "pushStallGuard"
    /\ advancedDSP' = [advancedDSP EXCEPT !.stallGuard = pushSG(@, axis)]
    /\ dspTrace' = [dspTrace EXCEPT
          !.sgPushes = IF axis \in Axes THEN @ + 1 ELSE @,
          !.axis = axis,
          !.writes = [NoAccess EXCEPT !.sg = SgWrites(advancedDSP.stallGuard, axis)],
          !.reads = NoAccess]
    /\ DspFrame

\* AdvancedDSP::analyze(fftMagnitudes, fftSize, vibMagnitude, micRMS)
DspAnalyze(f) ==
    LET d  == [advancedDSP EXCEPT
                  !.crossCorr = pushIMU(pushMic(@)),
                  !.crestAnalyzer = CrestPush(@),
                  !.freqTracker = TrackerPush(@)]
        r  == SubScores(d, f)
    IN  /\ op' = "analyze"
        /\ advancedDSP' = d
        /\ dspTrace' =
              [analyses |-> dspTrace.analyses + 1,
               sgPushes |-> dspTrace.sgPushes,
               axis |-> dspTrace.axis,
               features |-> f,
               result |-> r,
               chatterScore |-> WeightedFusion(r, d.stabilityLobe.toothPassFreq,
                                               hasData(d.stallGuard)),
               writes |-> [crest |-> {advancedDSP.crestAnalyzer.bufIdx},
                           mic |-> {advancedDSP.crossCorr.micIdx},
                           imu |-> {advancedDSP.crossCorr.imuIdx},
                           tracker |-> {advancedDSP.freqTracker.histIdx},
                           sg |-> {}],
               reads |-> [crest |-> CrestReads(d.crestAnalyzer),
                          mic |-> CorrReads,
                          imu |-> CorrReads,
                          tracker |-> StabilityReads(d.freqTracker)
                                         \cup GrowthReads(d.freqTracker),
                          sg |-> UNION {OscillationReads(d.stallGuard, a) : a \in Axes}]]
        /\ DspFrame

\* Inputs of the AdvancedDSP setters and of pushStallGuard
LobeRpms == {0, 300, 12000}
ToothCounts == {2, 4}
PushAxes == {-1, 2, 3}
LobeAxes == {0}

(***************************************************************************)
(* AdaptiveChatterDetector                                                 *)
(***************************************************************************)
\* AdvancedDSP::AdvancedResult: the fields update() reads
AdvancedResult(score, freq, harm, growing, engaged, stall) ==
    [chatterScore |-> score, dominantFreq |-> freq, harmonicStrength |-> harm,
     isGrowing |-> growing, isEngaged |-> engaged, stallGuardScore |-> stall]

\* lastAdvResult = {0}
ZeroAdvResult == AdvancedResult(0, 0, 0, FALSE, FALSE, 0)

\* What one cycle's analysis of the spectrum and the vibration sample yields:
\* freqAnalyzer.getAnomalyScore(), vibTracker.getAnomalyScore(),
\* freqAnalyzer.getDominantAnomalyFreq(), isfinite(vibMagnitude), and
\* advancedDSP.analyze(...).
Cycle(fs, vs, af, fin, adv) ==
    [freqScore |-> fs, vibScore |-> vs, anomalyFreq |-> af, vibFinite |-> fin,
     adv |-> adv]

\* No anomaly and no tonal content.
Quiet == Cycle(0, 0, 0, TRUE, AdvancedResult(0, 0, 0, FALSE, FALSE, 0))
\* Strong harmonic chatter at 1500 Hz seen by every analyzer.
Loud == Cycle(100, 100, 2041, TRUE, AdvancedResult(100, 1500, 90, TRUE, TRUE, 70))
\* Strong chatter whose fundamental the harmonic detector puts below 100 Hz, so
\* the band analyzer's dominant anomaly frequency (band 12, 3162 Hz) is used.
LoudBand == Cycle(100, 100, 3162, TRUE, AdvancedResult(100, 50, 90, TRUE, TRUE, 70))

\* A moderate anomaly at f Hz with none of the advanced indicators strong:
\* fused score 40, which the clamp leaves alone with or without the learned boost.
Mild(f) == Cycle(50, 50, f, TRUE, AdvancedResult(40, f, 0, FALSE, FALSE, 0))

\* Dominant frequencies on and next to the bounds of the default range and of
\* the ranges learned from chatter at 1500 Hz
LearnFreqs == {999, 1000, 1499, 1500, 2000, 2001, 2500, 2501}
LearnCycles == {Quiet, Loud} \cup {Mild(f) : f \in LearnFreqs}

Cycles == {Quiet, Loud, LoudBand}

\* baselineScore = freqScore * 0.5 + vibScore * 0.3, in hundredths
BaselineScore(c) == c.freqScore * 50 + c.vibScore * 30

\* rawScore = baselineScore * 0.4 + dspScore * 0.6, in hundredths
FusedScore(c) == (BaselineScore(c) * 40) \div 100 + c.adv.chatterScore * 60

\* dominantFreq of the cycle: the DSP fundamental, or below 100 Hz the band
\* analyzer's dominant anomaly frequency
CycleDominantFreq(c) ==
    IF c.adv.dominantFreq < 100 THEN c.anomalyFreq ELSE c.adv.dominantFreq

\* Mutant of InLearnedRange: the bounds of the range are excluded.
InLearnedRangeExclusive(f, range) == f > range.lowHz /\ f < range.highHz

\* dominantFreq >= lowHz && dominantFreq <= highHz
InLearnedRange(f, range) == f >= range.lowHz /\ f <= range.highHz

\* if (cond) rawScore *= pct / 100
Boost(raw, cond, pct) == IF cond THEN (raw * pct) \div 100 ELSE raw

\* Mutant of RawScore: the boosted score is not clamped.
RawScoreUnclamped(c, hist) ==
    LET r0 == FusedScore(c)
        r1 == Boost(r0, InLearnedRange(CycleDominantFreq(c),
                                       getPredictedChatterRange(hist)), 125)
        r2 == Boost(r1, c.adv.harmonicStrength > 60, 115)
        r3 == Boost(r2, c.adv.isGrowing /\ c.adv.isEngaged, 110)
    IN  Boost(r3, c.adv.stallGuardScore > 50, 120)

\* rawScore after the learned-range and the advanced-indicator boosts and the
\* clamp min(100, rawScore), in hundredths
RawScore(c, hist) ==
    LET r0 == FusedScore(c)
        r1 == Boost(r0, InLearnedRange(CycleDominantFreq(c),
                                       getPredictedChatterRange(hist)), 125)
        r2 == Boost(r1, c.adv.harmonicStrength > 60, 115)
        r3 == Boost(r2, c.adv.isGrowing /\ c.adv.isEngaged, 110)
        r4 == Boost(r3, c.adv.stallGuardScore > 50, 120)
    IN  Min(10000, r4)

\* A score stored in the model's resolution: the multiple of ScoreGrid below it
Quantize(x) == x - (x % ScoreGrid)

\* smoothedScore = smoothedScore * 0.7 + rawScore * 0.3 (raw in hundredths)
Smooth(s, raw) == Quantize((700 * s + 3 * raw) \div 1000)

\* usingLearnedData after the range test
LearnedFlag(c, hist, ev) ==
    IF InLearnedRange(CycleDominantFreq(c), getPredictedChatterRange(hist))
    THEN TRUE ELSE getResolvedCount(ev) > 0

\* now - lastChatterTime on unsigned long; millis() is monotonic and stays
\* below its wrap in every run of the model, so the difference is never reduced
Elapsed(t, last) == t - last

\* Mutants of the tests of updateState
EntersWarningAtForty(score) == score >= 40
RecoveryOverEarly(score, t, last) == score < 25 /\ Elapsed(t, last) > 4000
RecoveryOverLow(score, t, last) == score < 20 /\ Elapsed(t, last) > RECOVERY_MS
AutoConfirmsAtLimit(feed) == feed <= 95

\* The tests of updateState
EntersChatter(score) == score > 70
EntersWarning(score) == score > 40
\* Mutant of LeavesWarning: a warning is dropped below 50 already.
LeavesWarningEarly(score) == score < 50
LeavesWarning(score) == score < 30
LeavesChatter(score) == score < 40
Retriggers(score) == score > 60
RecoveryOver(score, t, last) == score < 25 /\ Elapsed(t, last) > RECOVERY_MS
AutoConfirms(feed) == feed < 95

\* Mutant of Reduction: the feed itself is stored as the reduction.
ReductionIsFeed(iv) == iv

\* confirmChatterResolved(): reduction = 100 - interventionFeed
Reduction(iv) == 100 - iv

\* Mutant of NewChatterEvent: feedReduction starts at the default reduction.
NewChatterEventPrefilled(freq, severity) ==
    ChatterEvent(freq, spindleRPM, feedRate, severity, DEFAULT_REDUCTION, FALSE, now)

\* recordChatterEvent(freq, severity): the event it builds
NewChatterEvent(freq, severity) ==
    ChatterEvent(freq, spindleRPM, feedRate, severity, 0, FALSE, now)

\* The history log after the memory changed from ev to ev2: a recorded event is
\* appended, a mutation of the newest event is copied.
LogAfter(ev, ev2, recorded) ==
    IF recorded THEN Append(log, ev2[Len(ev2)])
    ELSE IF ev2 # ev THEN [log EXCEPT ![Len(log)] = ev2[Len(ev2)]]
    ELSE log

\* The memory is left as it is.
MemoryUnchanged == UNCHANGED << events, chatterFreqHistogram, prefs, log >>

\* The memory becomes m (a result of recordEvent or markResolved).
MemoryBecomes(m, recorded) ==
    /\ events' = m.events
    /\ chatterFreqHistogram' = m.histogram
    /\ prefs' = m.prefs
    /\ log' = LogAfter(events, m.events, recorded)

\* Mutant of ToChatter: the feed rate is tracked on entering CHATTER already.
ToChatterTrackingFeed(score, freq) ==
    LET m == recordEvent(events, chatterFreqHistogram, prefs,
                         NewChatterEvent(freq, score))
    IN  /\ currentState' = "CHATTER"
        /\ lastChatterTime' = now
        /\ MemoryBecomes(m, TRUE)
        /\ suggestedFeed' = predictFeedReduction(m.events, freq, spindleRPM)
        /\ interventionFeed' = feedRate

\* MONITORING / WARNING with score > 70
ToChatter(score, freq) ==
    LET m == recordEvent(events, chatterFreqHistogram, prefs,
                         NewChatterEvent(freq, score))
    IN  /\ currentState' = "CHATTER"
        /\ lastChatterTime' = now
        /\ MemoryBecomes(m, TRUE)
        /\ suggestedFeed' = predictFeedReduction(m.events, freq, spindleRPM)
        /\ UNCHANGED interventionFeed

\* Mutant of updateState: CHATTER is left for MONITORING, without a recovery.
updateStateNoRecovery(score, freq) ==
    CASE currentState = "MONITORING" ->
            IF EntersChatter(score) THEN ToChatter(score, freq)
            ELSE /\ currentState' = IF EntersWarning(score) THEN "WARNING" ELSE "MONITORING"
                 /\ MemoryUnchanged
                 /\ UNCHANGED << lastChatterTime, suggestedFeed, interventionFeed >>
      [] currentState = "WARNING" ->
            IF EntersChatter(score) THEN ToChatter(score, freq)
            ELSE /\ currentState' = IF LeavesWarning(score) THEN "MONITORING" ELSE "WARNING"
                 /\ MemoryUnchanged
                 /\ UNCHANGED << lastChatterTime, suggestedFeed, interventionFeed >>
      [] currentState = "CHATTER" ->
            /\ interventionFeed' = feedRate
            /\ currentState' = IF LeavesChatter(score) THEN "MONITORING" ELSE "CHATTER"
            /\ IF LeavesChatter(score) /\ AutoConfirms(feedRate)
               THEN MemoryBecomes(markResolved(events, chatterFreqHistogram, prefs,
                                               Reduction(interventionFeed')), FALSE)
               ELSE MemoryUnchanged
            /\ UNCHANGED << lastChatterTime, suggestedFeed >>
      [] currentState = "RECOVERING" ->
            /\ currentState' = IF Retriggers(score) THEN "CHATTER"
                               ELSE IF RecoveryOver(score, now, lastChatterTime)
                                    THEN "MONITORING" ELSE "RECOVERING"
            /\ lastChatterTime' = IF Retriggers(score) THEN now ELSE lastChatterTime
            /\ suggestedFeed' = IF ~Retriggers(score) /\ RecoveryOver(score, now, lastChatterTime)
                                THEN 100 ELSE suggestedFeed
            /\ MemoryUnchanged
            /\ UNCHANGED interventionFeed
      [] OTHER ->
            /\ MemoryUnchanged
            /\ UNCHANGED << currentState, lastChatterTime, suggestedFeed, interventionFeed >>

\* updateState(score, dominantFreq)
updateState(score, freq) ==
    CASE currentState = "MONITORING" ->
            IF EntersChatter(score) THEN ToChatter(score, freq)
            ELSE /\ currentState' = IF EntersWarning(score) THEN "WARNING" ELSE "MONITORING"
                 /\ MemoryUnchanged
                 /\ UNCHANGED << lastChatterTime, suggestedFeed, interventionFeed >>
      [] currentState = "WARNING" ->
            IF EntersChatter(score) THEN ToChatter(score, freq)
            ELSE /\ currentState' = IF LeavesWarning(score) THEN "MONITORING" ELSE "WARNING"
                 /\ MemoryUnchanged
                 /\ UNCHANGED << lastChatterTime, suggestedFeed, interventionFeed >>
      [] currentState = "CHATTER" ->
            /\ interventionFeed' = feedRate
            /\ currentState' = IF LeavesChatter(score) THEN "RECOVERING" ELSE "CHATTER"
            /\ IF LeavesChatter(score) /\ AutoConfirms(feedRate)
               THEN MemoryBecomes(markResolved(events, chatterFreqHistogram, prefs,
                                               Reduction(interventionFeed')), FALSE)
               ELSE MemoryUnchanged
            /\ UNCHANGED << lastChatterTime, suggestedFeed >>
      [] currentState = "RECOVERING" ->
            /\ currentState' = IF Retriggers(score) THEN "CHATTER"
                               ELSE IF RecoveryOver(score, now, lastChatterTime)
                                    THEN "MONITORING" ELSE "RECOVERING"
            /\ lastChatterTime' = IF Retriggers(score) THEN now ELSE lastChatterTime
            /\ suggestedFeed' = IF ~Retriggers(score) /\ RecoveryOver(score, now, lastChatterTime)
                                THEN 100 ELSE suggestedFeed
            /\ MemoryUnchanged
            /\ UNCHANGED interventionFeed
      [] OTHER ->
            /\ MemoryUnchanged
            /\ UNCHANGED << currentState, lastChatterTime, suggestedFeed, interventionFeed >>

\* The score sequence since calibration completed: "fresh" before the first
\* scoring update, "rising" while no scoring update lowered the smoothed score,
\* "off" otherwise and while calibrating.
RunAfter(r, s, s2) ==
    IF r = "fresh" THEN "rising"
    ELSE IF r = "rising" /\ s2 >= s THEN "rising" ELSE "off"

\* update(fftMagnitudes, fftSize, vibMagnitude, micRMS) while CALIBRATING
UpdateCalibrating(c) ==
    /\ currentState = "CALIBRATING"
    /\ vibBaselineCount' = PushCount(vibBaselineCount, c.vibFinite)
    /\ vibRecentHasData' = (vibRecentHasData \/ c.vibFinite)
    /\ calibrationSamples' = calibrationSamples + 1
    /\ calibrated' = (calibrated \/ BandCalibrated(calibrationSamples + 1))
    /\ currentState' = IF calibrated' /\ VibCalibrated(vibBaselineCount')
                       THEN "MONITORING" ELSE "CALIBRATING"
    /\ run' = IF currentState' = "MONITORING" THEN "fresh" ELSE run
    /\ MemoryUnchanged
    /\ UNCHANGED << smoothedScore, suggestedFeed, interventionFeed, usingLearnedData,
                    lastChatterTime, lastAdvResult,
                    dspAnalyzed, dominantFreq >>

\* update(...) in every other state
UpdateScoring(c) ==
    /\ currentState # "CALIBRATING"
    /\ lastAdvResult' = c.adv
    /\ dspAnalyzed' = << c >>
    /\ dominantFreq' = CycleDominantFreq(c)
    /\ usingLearnedData' = LearnedFlag(c, chatterFreqHistogram, events)
    /\ smoothedScore' = Smooth(smoothedScore, RawScore(c, chatterFreqHistogram))
    /\ run' = RunAfter(run, smoothedScore, smoothedScore')
    /\ updateState(smoothedScore', dominantFreq')
    /\ vibRecentHasData' = (vibRecentHasData \/ c.vibFinite)
    /\ UNCHANGED << calibrationSamples, calibrated, vibBaselineCount >>

Update(c) ==
    /\ op' = "update"
    /\ UNCHANGED << stats, advancedDSP, dspTrace >>
    /\ prevState' = currentState
    /\ UpdateCalibrating(c) \/ UpdateScoring(c)
    /\ UNCHANGED << spindleRPM, feedRate, now, calls >>


\* A cycle whose vibration sample is not finite (the IMU returned NaN).
Glitch == Cycle(0, 0, 0, FALSE, ZeroAdvResult)

\* The cycles of a cut that chatters throughout
ChatterCycles == {Loud}

\* update(...) with a non-finite vibration sample, while CALIBRATING
GlitchUpdate ==
    /\ currentState = "CALIBRATING"
    /\ Update(Glitch)

\* Inputs of the setters and steps of the clock
Feeds == {90, 95, 100}
SlowFeeds == {90}
Rpms == {12000}
TickSteps == {4999, 5000, 5001}

\* setSpindleRPM(rpm)
SetSpindleRPM(rpm) ==
    /\ op' = "setSpindleRPM"
    /\ UNCHANGED << stats, advancedDSP, dspTrace >>
    /\ prevState' = currentState
    /\ spindleRPM' = rpm
    /\ MemoryUnchanged
    /\ UNCHANGED << currentState, smoothedScore, feedRate, suggestedFeed,
                    interventionFeed, usingLearnedData, lastChatterTime, lastAdvResult,
                    dspAnalyzed,
                    calibrationSamples, calibrated, vibBaselineCount, vibRecentHasData, now,
                    dominantFreq, run, calls >>

\* setFeedRate(feed)
SetFeedRate(feed) ==
    /\ op' = "setFeedRate"
    /\ UNCHANGED << stats, advancedDSP, dspTrace >>
    /\ prevState' = currentState
    /\ feedRate' = feed
    /\ MemoryUnchanged
    /\ UNCHANGED << currentState, smoothedScore, spindleRPM, suggestedFeed,
                    interventionFeed, usingLearnedData, lastChatterTime, lastAdvResult,
                    dspAnalyzed,
                    calibrationSamples, calibrated, vibBaselineCount, vibRecentHasData, now,
                    dominantFreq, run, calls >>

\* confirmChatterResolved()
ConfirmChatterResolved ==
    /\ op' = "confirmChatterResolved"
    /\ UNCHANGED << stats, advancedDSP, dspTrace >>
    /\ prevState' = currentState
    /\ MemoryBecomes(markResolved(events, chatterFreqHistogram, prefs,
                                  Reduction(interventionFeed)), FALSE)
    /\ UNCHANGED << currentState, smoothedScore, spindleRPM, feedRate, suggestedFeed,
                    interventionFeed, usingLearnedData, lastChatterTime, lastAdvResult,
                    dspAnalyzed,
                    calibrationSamples, calibrated, vibBaselineCount, vibRecentHasData, now,
                    dominantFreq, run, calls >>

\* Mutant of StartCalibration: the score and the suggestion start afresh too.
StartCalibrationAfresh ==
    /\ op' = "startCalibration"
    /\ UNCHANGED << stats, advancedDSP, dspTrace >>
    /\ prevState' = currentState
    /\ calibrationSamples' = 0
    /\ calibrated' = FALSE
    /\ vibBaselineCount' = 0
    /\ vibRecentHasData' = FALSE
    /\ currentState' = "CALIBRATING"
    /\ run' = "off"
    /\ calls' = [calls EXCEPT !.recal = @ + 1]
    /\ MemoryUnchanged
    /\ smoothedScore' = 0
    /\ suggestedFeed' = 100
    /\ UNCHANGED << spindleRPM, feedRate,
                    interventionFeed, usingLearnedData, lastChatterTime, lastAdvResult,
                    dspAnalyzed,
                    now, dominantFreq >>

\* startCalibration()
StartCalibration ==
    /\ op' = "startCalibration"
    /\ UNCHANGED << stats, advancedDSP, dspTrace >>
    /\ prevState' = currentState
    /\ calibrationSamples' = 0
    /\ calibrated' = FALSE
    /\ vibBaselineCount' = 0
    /\ vibRecentHasData' = FALSE
    /\ currentState' = "CALIBRATING"
    /\ run' = "off"
    /\ calls' = [calls EXCEPT !.recal = @ + 1]
    /\ MemoryUnchanged
    /\ UNCHANGED << smoothedScore, spindleRPM, feedRate, suggestedFeed,
                    interventionFeed, usingLearnedData, lastChatterTime, lastAdvResult,
                    dspAnalyzed,
                    now, dominantFreq >>

\* millis() advances by d
Tick(d) ==
    /\ op' = "tick"
    /\ UNCHANGED << stats, advancedDSP, dspTrace >>
    /\ prevState' = currentState
    /\ now' = now + d
    /\ MemoryUnchanged
    /\ UNCHANGED << currentState, smoothedScore, spindleRPM, feedRate, suggestedFeed,
                    interventionFeed, usingLearnedData, lastChatterTime, lastAdvResult,
                    dspAnalyzed,
                    calibrationSamples, calibrated, vibBaselineCount, vibRecentHasData,
                    dominantFreq, run, calls >>

\* The detector as constructed and initialised by init(), over the flash p
Boot(p) ==
    /\ currentState = "CALIBRATING"
    /\ smoothedScore = 0
    /\ spindleRPM = 0
    /\ feedRate = 100
    /\ suggestedFeed = 100
    /\ interventionFeed = 100
    /\ usingLearnedData = FALSE
    /\ lastChatterTime = 0
    /\ lastAdvResult = ZeroAdvResult
    /\ dspAnalyzed = << >>
    /\ calibrationSamples = 0
    /\ calibrated = FALSE
    /\ vibBaselineCount = 0
    /\ vibRecentHasData = FALSE
    /\ events = loadFromFlash(p).events
    /\ chatterFreqHistogram = loadFromFlash(p).histogram
    /\ prefs = p
    /\ now = 0
    /\ prevState = "CALIBRATING"
    /\ dominantFreq = 0
    /\ run = "off"

\* First boot: nothing in flash
Init ==
    /\ Boot(EmptyPrefs)
    /\ op = "init"
    /\ log = << >>
    /\ calls = [recal |-> 0, resolve |-> 0, restart |-> 0, lost |-> 0]
    /\ stats = ClearStats
    /\ advancedDSP = NewAdvancedDSP
    /\ dspTrace = NoDspTrace

\* Power cycle: a new detector is constructed and init() loads the flash
Restart ==
    /\ op' = "restart"
    /\ UNCHANGED << stats, advancedDSP, dspTrace >>
    /\ currentState' = "CALIBRATING"
    /\ smoothedScore' = 0
    /\ spindleRPM' = 0
    /\ feedRate' = 100
    /\ suggestedFeed' = 100
    /\ interventionFeed' = 100
    /\ usingLearnedData' = FALSE
    /\ lastChatterTime' = 0
    /\ lastAdvResult' = ZeroAdvResult
    /\ dspAnalyzed' = << >>
    /\ calibrationSamples' = 0
    /\ calibrated' = FALSE
    /\ vibBaselineCount' = 0
    /\ vibRecentHasData' = FALSE
    /\ events' = loadFromFlash(prefs).events
    /\ chatterFreqHistogram' = loadFromFlash(prefs).histogram
    /\ now' = 0
    /\ prevState' = currentState
    /\ dominantFreq' = 0
    /\ run' = "off"
    /\ calls' = [calls EXCEPT !.restart = @ + 1]
    /\ UNCHANGED << prefs, log >>

(***************************************************************************)
(* ChatterMemory driven directly                                           *)
(***************************************************************************)
\* The k-th event handed to recordEvent
MemEvent(k) == ChatterEvent(1500 + 800 * (k % 3), 12000, 100, 71 + (k % 7), 0, FALSE, k)

MemReductions == {10}

\* memory.recordEvent(e)
MemRecord ==
    /\ op' = "recordEvent"
    /\ UNCHANGED << stats, advancedDSP, dspTrace >>
    /\ MemoryBecomes(recordEvent(events, chatterFreqHistogram, prefs,
                                 MemEvent(Len(log) + 1)), TRUE)
    /\ UNCHANGED detectorVars
    /\ UNCHANGED calls

\* memory.markResolved(r)
MemMarkResolved(r) ==
    /\ op' = "markResolved"
    /\ UNCHANGED << stats, advancedDSP, dspTrace >>
    /\ MemoryBecomes(markResolved(events, chatterFreqHistogram, prefs, r), FALSE)
    /\ calls' = [calls EXCEPT !.resolve = @ + 1]
    /\ UNCHANGED detectorVars

\* Keys of the "chatter" namespace a fault may hit: -2 "histogram",
\* -1 "eventCount", i >= 0 "evt<i>"
LostKeys == {-2, -1, 0, 1}

\* The record under key k is missing or has the wrong size when next read:
\* getBytes returns 0 / a size other than the one asked for, getInt returns
\* its default.
LoseRecord(k) ==
    /\ op' = "loseRecord"
    /\ UNCHANGED << stats, advancedDSP, dspTrace >>
    /\ prefs' = [prefs EXCEPT
                    !.hasHistogram = IF k = -2 THEN FALSE ELSE @,
                    !.hasEventCount = IF k = -1 THEN FALSE ELSE @,
                    !.hasEvt = [i \in 0..(SAVED_EVENTS - 1) |->
                                   IF i = k THEN FALSE ELSE @[i]]]
    /\ prefs' # prefs
    /\ calls' = [calls EXCEPT !.lost = @ + 1]
    /\ UNCHANGED << events, chatterFreqHistogram, log >>
    /\ UNCHANGED detectorVars

\* Frequencies of the events recorded when the range is studied: bins 3, 5,
\* 7, 15, 79 and 82
RangeFreqs == {300, 500, 700, 1500, 7900, 8200}

\* memory.recordEvent(e) with an event at frequency f
MemRecordAt(f) ==
    /\ op' = "recordEvent"
    /\ UNCHANGED << stats, advancedDSP, dspTrace >>
    /\ MemoryBecomes(recordEvent(events, chatterFreqHistogram, prefs,
                                 ChatterEvent(f, 12000, 100, 75, 0, FALSE,
                                              Len(log) + 1)), TRUE)
    /\ UNCHANGED detectorVars
    /\ UNCHANGED calls

\* FrequencyBandAnalyzer::getCalibrationProgress()
getCalibrationProgress == Min(100, (calibrationSamples * 100) \div MIN_CALIBRATION_SAMPLES)

\* FrequencyBandAnalyzer::getDominantAnomalyFreq(): the band analyzer's answer
\* for the spectrum it analysed last, 0 before any anomaly was computed
getDominantAnomalyFreq ==
    IF dspAnalyzed = << >> THEN 0 ELSE dspAnalyzed[1].anomalyFreq

\* calculateConfidence(), in tenths of a point, over the sub-metrics of
\* lastAdvResult the model carries (harmonic strength and StallGuard score)
calculateConfidence ==
    Min(1000,
        400 + Min(150, (getCalibrationProgress * 15) \div 10)
            + Min(150, getResolvedCount(events) * 15)
            + (IF usingLearnedData THEN 80 ELSE 0)
            + (IF lastAdvResult.harmonicStrength > 60 THEN 120
               ELSE IF lastAdvResult.harmonicStrength > 30 THEN 60 ELSE 0)
            + (IF lastAdvResult.stallGuardScore > 50 THEN 120
               ELSE IF lastAdvResult.stallGuardScore > 20 THEN 50 ELSE 0))

\* The snapshot getStatus() returns
getStatus ==
    [state |-> currentState,
     score |-> smoothedScore,
     confidence |-> calculateConfidence,
     dominantFreq |-> IF lastAdvResult.dominantFreq > 100
                      THEN lastAdvResult.dominantFreq ELSE getDominantAnomalyFreq,
     suggestedFeedPct |-> suggestedFeed,
     learned |-> usingLearnedData,
     calibrationPct |-> getCalibrationProgress,
     learnedEvents |-> getResolvedCount(events),
     harmonicStrength |-> lastAdvResult.harmonicStrength,
     stallGuardScore |-> lastAdvResult.stallGuardScore,
     isEngaged |-> lastAdvResult.isEngaged,
     isGrowing |-> lastAdvResult.isGrowing]

\* Mutant of GetStatus: the reader refreshes the learned flag.
GetStatusRefreshing ==
    /\ op' = "getStatus"
    /\ UNCHANGED << stats, advancedDSP, dspTrace >>
    /\ prevState' = currentState
    /\ usingLearnedData' = (getResolvedCount(events) > 0)
    /\ MemoryUnchanged
    /\ UNCHANGED << currentState, smoothedScore, spindleRPM, feedRate, suggestedFeed,
                    interventionFeed, lastChatterTime, lastAdvResult, dspAnalyzed,
                    calibrationSamples, calibrated, vibBaselineCount,
                    vibRecentHasData, now, dominantFreq, run, calls >>

\* getStatus(): the caller receives the snapshot; no field is written
GetStatus ==
    /\ op' = "getStatus"
    /\ UNCHANGED << stats, advancedDSP, dspTrace >>
    /\ prevState' = currentState
    /\ MemoryUnchanged
    /\ UNCHANGED << currentState, smoothedScore, spindleRPM, feedRate, suggestedFeed,
                    interventionFeed, usingLearnedData, lastChatterTime, lastAdvResult,
                    dspAnalyzed, calibrationSamples, calibrated, vibBaselineCount,
                    vibRecentHasData, now, dominantFreq, run, calls >>

\* Samples pushed into the RunningStats object
StatSamples == {Finite(1000), Finite(2500), Finite(4000), NaN, PosInf, NegInf}

\* stats.push(x)
StatPush(x) ==
    /\ op' = IF IsFinite(x) THEN "push" ELSE "pushNonFinite"
    /\ stats' = Push(stats, x)
    /\ UNCHANGED << events, chatterFreqHistogram, prefs, log, calls >>
    /\ UNCHANGED << advancedDSP, dspTrace >>
    /\ UNCHANGED detectorVars

\* stats.clear()
StatClear ==
    /\ op' = "clear"
    /\ stats' = ClearStats
    /\ UNCHANGED << events, chatterFreqHistogram, prefs, log, calls >>
    /\ UNCHANGED << advancedDSP, dspTrace >>
    /\ UNCHANGED detectorVars

(***************************************************************************)
(* Specifications                                                          *)
(*                                                                         *)
(* Each one drives the same detector with some of its callers:             *)
(*   Spec       sensor cycles and the operator's commands (feed, RPM,      *)
(*              RESOLVED) at one clock reading;                            *)
(*   SpecTimed  sensor cycles, the clock and a feed reduction;             *)
(*   SpecRecal  sensor cycles and the CAL command;                         *)
(*   SpecMem    recordEvent / markResolved on the ChatterMemory alone;     *)
(*   SpecFlash  the ChatterMemory with power cycles;                       *)
(*   SpecFault  the same, with records lost from the flash;                *)
(*   SpecCalib  calibration with non-finite vibration samples, and CAL;    *)
(*   SpecRange  the ChatterMemory fed events over the whole spectrum;      *)
(*   SpecStats  a RunningStats object on its own;                          *)
(*   SpecStatus sensor cycles, RESOLVED and the status reader;             *)
(*   SpecLearn  sensor cycles around the learned range, and RESOLVED;      *)
(*   SpecLobe   an AdvancedDSP object on its own: setters, stall-guard     *)
(*              values and a few analyses;                                 *)
(*   SpecRings  the same object through the wrap of every sample buffer.   *)
(***************************************************************************)
DetectorBounds ==
    /\ now <= MaxNow
    /\ Len(log) <= MaxEv
    /\ calls.recal <= MaxRecal
    /\ \A b \in 0..(HISTOGRAM_BINS - 1) : chatterFreqHistogram[b] <= MaxCount

Next ==
    /\ \/ \E c \in Cycles : Update(c)
       \/ \E f \in Feeds : SetFeedRate(f)
       \/ \E r \in Rpms : SetSpindleRPM(r)
       \/ ConfirmChatterResolved
    /\ DetectorBounds'

Spec == Init /\ [][Next]_vars

NextTimed ==
    /\ \/ \E c \in Cycles : Update(c)
       \/ \E d \in TickSteps : Tick(d)
       \/ \E f \in SlowFeeds : SetFeedRate(f)
    /\ DetectorBounds'

SpecTimed == Init /\ [][NextTimed]_vars

NextRecal ==
    /\ \/ \E c \in Cycles : Update(c)
       \/ StartCalibration
    /\ DetectorBounds'

SpecRecal == Init /\ [][NextRecal]_vars

NextMem ==
    /\ \/ MemRecord
       \/ \E r \in MemReductions : MemMarkResolved(r)
    /\ Len(log') <= MaxRecords
    /\ calls'.resolve <= MaxResolves

SpecMem == Init /\ [][NextMem]_vars

NextFlash ==
    /\ \/ MemRecord
       \/ \E r \in MemReductions : MemMarkResolved(r)
       \/ Restart
    /\ Len(log') <= MaxStored
    /\ calls'.resolve <= MaxResolves
    /\ calls'.restart <= MaxRestarts

SpecFlash == Init /\ [][NextFlash]_vars

NextFault ==
    /\ \/ MemRecord
       \/ \E r \in MemReductions : MemMarkResolved(r)
       \/ Restart
       \/ \E k \in LostKeys : LoseRecord(k)
    /\ Len(log') <= MaxFaultStored
    /\ calls'.resolve <= MaxResolves
    /\ calls'.restart <= MaxRestarts
    /\ calls'.lost <= MaxLost

SpecFault == Init /\ [][NextFault]_vars

NextCalib ==
    /\ \/ \E c \in ChatterCycles : Update(c)
       \/ GlitchUpdate
       \/ StartCalibration
    /\ DetectorBounds'
    /\ calibrationSamples' - vibBaselineCount' <= MaxGlitch

SpecCalib == Init /\ [][NextCalib]_vars

NextRange ==
    /\ \/ \E f \in RangeFreqs : MemRecordAt(f)
       \/ \E r \in MemReductions : MemMarkResolved(r)
    /\ Len(log') <= MaxRangeEvents
    /\ calls'.resolve <= MaxResolves

SpecRange == Init /\ [][NextRange]_vars

NextStats ==
    /\ \/ \E x \in StatSamples : StatPush(x)
       \/ StatClear
    /\ stats'.n <= MaxPushes

SpecStats == Init /\ [][NextStats]_vars

NextStatus ==
    /\ \/ \E c \in Cycles : Update(c)
       \/ ConfirmChatterResolved
       \/ GetStatus
    /\ DetectorBounds'

SpecStatus == Init /\ [][NextStatus]_vars

NextLearn ==
    /\ \/ \E c \in LearnCycles : Update(c)
       \/ ConfirmChatterResolved
    /\ DetectorBounds'

SpecLearn == Init /\ [][NextLearn]_vars

NextLobe ==
    /\ \/ \E rpm \in LobeRpms : DspSetSpindleRPM(rpm)
       \/ \E t \in ToothCounts : DspSetToolParams(t)
       \/ \E a \in LobeAxes : DspPushStallGuard(a)
       \/ \E f \in FeatureSet : DspAnalyze(f)
    /\ dspTrace'.analyses <= MaxLobeAnalyses
    /\ dspTrace'.sgPushes <= MaxLobePushes

SpecLobe == Init /\ [][NextLobe]_vars

NextRings ==
    /\ \/ DspAnalyze(ChatterFeatures)
       \/ \E a \in PushAxes : DspPushStallGuard(a)
    /\ dspTrace'.analyses <= MaxRingAnalyses
    /\ dspTrace'.sgPushes <= MaxSgPushes

SpecRings == Init /\ [][NextRings]_vars

(***************************************************************************)
(* Properties                                                              *)
(***************************************************************************)
\* The last n elements of a sequence
LastN(seq, n) == SubSeq(seq, Len(seq) - n + 1, Len(seq))

\* The newest event of a non-empty list
Newest(seq) == seq[Len(seq)]

\* All but the newest event
Older(seq) == SubSeq(seq, 1, Len(seq) - 1)

\* A step that is a scoring update continuing a rising score sequence that
\* started when calibration completed
RisingUpdate == op' = "update" /\ run' = "rising"

\* This step is the first of the rising sequence whose smoothed score exceeds t
FirstAbove(t) == smoothedScore' > t /\ ~(run = "rising" /\ smoothedScore > t)

\* C1: along a rising smoothed-score sequence after calibration, the first
\* update with score > 70 enters CHATTER, the first update with score > 40
\* enters WARNING provided that score is not also above 70 (then the detector
\* goes to CHATTER directly), and neither state is entered before its point.
C1_RisingThresholds ==
    [][RisingUpdate =>
          /\ (FirstAbove(40) /\ smoothedScore' <= 70 => currentState' = "WARNING")
          /\ (FirstAbove(70) => currentState' = "CHATTER")
          /\ (smoothedScore' <= 40 => currentState' \notin {"WARNING", "CHATTER"})
          /\ (smoothedScore' <= 70 => currentState' # "CHATTER")]_vars

\* A rising sequence went MONITORING -> WARNING -> CHATTER at the thresholds.
C1_Witness ==
    /\ op = "update"
    /\ run = "rising"
    /\ prevState = "WARNING"
    /\ currentState = "CHATTER"
    /\ smoothedScore > 70

\* C1 as stated: the first update with score > 40 always enters WARNING.
C1_AsStated ==
    [][RisingUpdate =>
          /\ (FirstAbove(40) => currentState' = "WARNING")
          /\ (FirstAbove(70) => currentState' = "CHATTER")
          /\ (smoothedScore' <= 40 => currentState' \notin {"WARNING", "CHATTER"})
          /\ (smoothedScore' <= 70 => currentState' # "CHATTER")]_vars

\* A step that is an update of a detector in RECOVERING
RecoveringUpdate == op' = "update" /\ currentState = "RECOVERING"

\* C2: from RECOVERING an update moves to MONITORING only when the score is
\* < 25 and at least 5000 ms have passed since the last entry into CHATTER
\* (lastChatterTime, set on every entry); at 4999 ms the detector never moves
\* to MONITORING: it stays RECOVERING, or returns to CHATTER when the score
\* is > 60.
C2_RecoveryGuard ==
    [][/\ RecoveringUpdate =>
             /\ (currentState' = "MONITORING" =>
                    smoothedScore' < 25 /\ now - lastChatterTime >= RECOVERY_MS)
             /\ (now - lastChatterTime = RECOVERY_MS - 1 =>
                    currentState' = IF smoothedScore' > 60 THEN "CHATTER"
                                    ELSE "RECOVERING")
       /\ (op' = "update" /\ currentState # "CHATTER" /\ currentState' = "CHATTER")
             => lastChatterTime' = now]_vars

\* A quiet update 4999 ms after the chatter entry left the detector in RECOVERING.
C2_Witness ==
    /\ op = "update"
    /\ prevState = "RECOVERING"
    /\ currentState = "RECOVERING"
    /\ now - lastChatterTime = RECOVERY_MS - 1
    /\ smoothedScore < 25

\* C2 as stated: at 4999 ms the state stays RECOVERING for every score.
C2_AsStated ==
    [][RecoveringUpdate =>
          /\ (currentState' = "MONITORING" =>
                 smoothedScore' < 25 /\ now - lastChatterTime >= RECOVERY_MS)
          /\ (now - lastChatterTime = RECOVERY_MS - 1 =>
                 currentState' = "RECOVERING")]_vars

\* C3: in RECOVERING every update with score < 25 and more than 5000 ms since
\* the last chatter entry moves to MONITORING and resets the suggested feed to
\* 100; at exactly 5000 ms the detector stays RECOVERING and keeps its
\* suggested feed.
C3_RecoveryCompletes ==
    [][RecoveringUpdate /\ smoothedScore' < 25 =>
          /\ (now - lastChatterTime > RECOVERY_MS =>
                 currentState' = "MONITORING" /\ suggestedFeed' = 100)
          /\ (now - lastChatterTime = RECOVERY_MS =>
                 currentState' = "RECOVERING" /\ suggestedFeed' = suggestedFeed)]_vars

\* A quiet update 5001 ms after the chatter entry ended the recovery.
C3_Witness ==
    /\ op = "update"
    /\ prevState = "RECOVERING"
    /\ currentState = "MONITORING"
    /\ suggestedFeed = 100
    /\ smoothedScore < 25
    /\ now - lastChatterTime = RECOVERY_MS + 1

\* C3 as stated: score < 25 and elapsed >= 5000 ms, 5000 ms included.
C3_AsStated ==
    [][RecoveringUpdate /\ smoothedScore' < 25
                        /\ now - lastChatterTime >= RECOVERY_MS =>
          currentState' = "MONITORING" /\ suggestedFeed' = 100]_vars

\* C4: in RECOVERING an update with score > 60 returns to CHATTER and records
\* a new ChatterEvent, so the list grows by one or evicts its oldest.
C4_RetriggerRecords ==
    [][RecoveringUpdate /\ smoothedScore' > 60 =>
          /\ currentState' = "CHATTER"
          /\ events' = AppendEvicting(events,
                          ChatterEvent(dominantFreq', spindleRPM, feedRate,
                                       smoothedScore', 0, FALSE, now))]_vars

\* C5: an update taking MONITORING or WARNING to CHATTER appends exactly one
\* event (unresolved, reduction 0, the cycle's dominant frequency, the current
\* RPM and feed rate, severity = smoothed score) and sets the suggested feed to
\* predictFeedReduction over the new memory; an update that does not change
\* the state appends nothing.
C5_EntryRecords ==
    [][op' = "update" =>
          /\ (currentState \in {"MONITORING", "WARNING"} /\ currentState' = "CHATTER" =>
                /\ Len(events') = Len(events) + 1
                /\ Older(events') = events
                /\ Newest(events').resolved = FALSE
                /\ Newest(events').feedReduction = 0
                /\ Newest(events').frequency = dominantFreq'
                /\ Newest(events').spindleRPM = spindleRPM
                /\ Newest(events').feedRate = feedRate
                /\ Newest(events').severity = smoothedScore'
                /\ suggestedFeed' = predictFeedReduction(events', dominantFreq', spindleRPM))
          /\ (currentState' = currentState => Len(events') = Len(events))]_vars

\* A second chatter entry was recorded at the reduced feed and took its
\* suggested feed from the first, resolved, event.
C5_Witness ==
    /\ op = "update"
    /\ prevState \in {"MONITORING", "WARNING"}
    /\ currentState = "CHATTER"
    /\ Len(events) = 2
    /\ events[1].resolved
    /\ ~events[2].resolved
    /\ events[2].feedRate = 90
    /\ events[2].severity = smoothedScore
    /\ suggestedFeed = events[1].feedReduction

\* C6: in CHATTER an update with score < 40 moves to RECOVERING and marks the
\* newest event resolved exactly when the feed rate is below 95; with feed
\* >= 95 nothing is marked; with score >= 40 the state stays CHATTER.
C6_ChatterExit ==
    [][op' = "update" /\ currentState = "CHATTER" =>
          IF smoothedScore' < 40
          THEN /\ currentState' = "RECOVERING"
               /\ IF feedRate < 95
                  THEN /\ Len(events') = Len(events)
                       /\ Older(events') = Older(events)
                       /\ Newest(events').resolved
                  ELSE events' = events
          ELSE currentState' = "CHATTER" /\ events' = events]_vars

\* Chatter ended at 90% feed and the newest event was marked resolved.
C6_Witness ==
    /\ op = "update"
    /\ prevState = "CHATTER"
    /\ currentState = "RECOVERING"
    /\ feedRate = 90
    /\ Newest(events).resolved

\* A step in which confirmChatterResolved() runs after chatter ended at a
\* feed below 95: called in RECOVERING, or by the update leaving CHATTER
ConfirmsAfterChatter ==
    \/ /\ op' = "confirmChatterResolved"
       /\ currentState = "RECOVERING"
       /\ interventionFeed < 95
    \/ /\ op' = "update"
       /\ currentState = "CHATTER"
       /\ currentState' = "RECOVERING"
       /\ feedRate < 95

\* C7: confirmChatterResolved(), run by the update that leaves CHATTER at a
\* feed below 95 or called afterwards in RECOVERING, leaves the newest
\* recorded event resolved with feedReduction = 100 - interventionFeed, the
\* feed rate tracked in CHATTER, and touches nothing else of it.
C7_ConfirmResolved ==
    [][ConfirmsAfterChatter =>
          /\ interventionFeed' < 95
          /\ Len(events') = Len(events)
          /\ Older(events') = Older(events)
          /\ Newest(events') = [Newest(events) EXCEPT
                                   !.resolved = TRUE,
                                   !.feedReduction = 100 - interventionFeed']
          /\ Newest(events') = Newest(log')]_vars

\* RESOLVED was confirmed in RECOVERING after chatter ended at 90% feed and
\* the feed was raised again.
C7_Witness ==
    /\ op = "confirmChatterResolved"
    /\ currentState = "RECOVERING"
    /\ interventionFeed = 90
    /\ feedRate = 100
    /\ Newest(events).resolved
    /\ Newest(events).feedReduction = 10

\* C8: the event list never holds more than 50 events and is the newest
\* min(n, 50) of the n events recorded, in recording order.
C8_Capacity ==
    /\ Len(events) <= MAX_EVENTS
    /\ events = LastN(log, Min(Len(log), MAX_EVENTS))

\* 51 events were recorded: 50 remain and the first one is gone.
C8_Witness ==
    /\ op = "recordEvent"
    /\ Len(log) = MAX_EVENTS + 1
    /\ Len(events) = MAX_EVENTS
    /\ events[1] = log[2]
    /\ \A i \in 1..Len(events) : events[i] # log[1]

\* C9: a restart brings back the histogram as it was and exactly the newest
\* min(10, n) recorded events, in recording order and with every field.
C9_RoundTrip ==
    [][op' = "restart" =>
          /\ chatterFreqHistogram' = chatterFreqHistogram
          /\ events' = LastN(log, Min(SAVED_EVENTS, Len(log)))]_vars

\* Twelve events, one of them resolved, went through a restart: ten are back.
C9_Witness ==
    /\ op = "restart"
    /\ Len(log) = 12
    /\ Len(events) = SAVED_EVENTS
    /\ events[1] = log[3]
    /\ events[SAVED_EVENTS] = log[12]
    /\ \E i \in 1..Len(events) : events[i].resolved /\ events[i].feedReduction = 10
    /\ \E b \in 0..(HISTOGRAM_BINS - 1) : chatterFreqHistogram[b] > 0

\* The flash holds the histogram, the event count and the newest events of
\* the memory.
Persisted ==
    /\ prefs.hasHistogram
    /\ prefs.histogram = chatterFreqHistogram
    /\ prefs.hasEventCount
    /\ prefs.eventCount = Len(events)
    /\ \A i \in 0..(Min(SAVED_EVENTS, Len(events)) - 1) :
          prefs.hasEvt[i] /\ prefs.evt[i] = events[Len(events) - i]

\* C10: right after every recordEvent, and every markResolved that changed
\* the memory, the flash holds the current histogram, event count and newest
\* min(10, n) events, and a load from it returns them.
C10_WriteThrough ==
    (op = "recordEvent" \/ (op = "markResolved" /\ events # << >>)) =>
        /\ Persisted
        /\ loadFromFlash(prefs) =
              [histogram |-> chatterFreqHistogram,
               events |-> LastN(events, Min(SAVED_EVENTS, Len(events)))]

\* The newest of eleven events was marked resolved and the flash has it.
C10_Witness ==
    /\ op = "markResolved"
    /\ Len(events) = 11
    /\ Newest(events).resolved
    /\ prefs.eventCount = 11
    /\ prefs.evt[0] = Newest(events)

\* Indexes of the event records loadFromFlash asks for and finds
StoredIndexes(p) ==
    {i \in 0..LoadStart(IF p.hasEventCount THEN p.eventCount ELSE 0) : p.hasEvt[i]}

\* C11: a restart always completes initialisation; a missing histogram record
\* loads as an all-zero histogram, a missing event-count record as an empty
\* event list, and the list loaded holds exactly the event records found,
\* oldest first, with every missing or wrong-sized one skipped.
C11_ReadFailures ==
    [][op' = "restart" =>
          /\ currentState' = "CALIBRATING"
          /\ (~prefs.hasHistogram => chatterFreqHistogram' = ZeroHistogram)
          /\ (prefs.hasHistogram => chatterFreqHistogram' = prefs.histogram)
          /\ (~prefs.hasEventCount => events' = << >>)
          /\ Len(events') = Cardinality(StoredIndexes(prefs))
          /\ \A i \in StoredIndexes(prefs) :
                events'[Cardinality({j \in StoredIndexes(prefs) : j >= i})] = prefs.evt[i]]_vars

\* A restart after the histogram and the newest event record were lost: the
\* histogram is zero and the list holds the two older events only.
C11_Witness ==
    /\ op = "restart"
    /\ ~prefs.hasHistogram
    /\ prefs.hasEventCount /\ prefs.eventCount = 3
    /\ ~prefs.hasEvt[0]
    /\ chatterFreqHistogram = ZeroHistogram
    /\ Len(events) = 2
    /\ events[2] = prefs.evt[1]

\* Queries put to predictFeedReduction: (frequency, spindle RPM)
QueryFreqs == {1500, 2000, 6000}
QueryRpms == {0, 12000}

IsResolved(e) == e.resolved

\* C12: with no resolved event in memory predictFeedReduction returns exactly
\* 20 for every query, however many unresolved events are stored; and the
\* prediction is always the one made from the resolved events alone.
C12_DefaultPrediction ==
    \A f \in QueryFreqs, r \in QueryRpms :
        /\ (getResolvedCount(events) = 0 =>
               predictFeedReduction(events, f, r) = DEFAULT_REDUCTION)
        /\ predictFeedReduction(events, f, r) =
               predictFeedReduction(SelectSeq(events, IsResolved), f, r)

\* A memory of twelve unresolved events predicts 20 at the frequency and RPM
\* of its newest event.
C12_Witness ==
    /\ Len(events) = 12
    /\ getResolvedCount(events) = 0
    /\ events[12].frequency = 1500
    /\ events[12].spindleRPM = 12000
    /\ predictFeedReduction(events, 1500, 12000) = DEFAULT_REDUCTION

\* A step that is an update of a detector in CALIBRATING
CalibratingUpdate == op' = "update" /\ currentState = "CALIBRATING"

\* C13: an update in CALIBRATING pushes the baselines and scores nothing: the
\* smoothed score, suggested feed, learned flag, last DSP result, DSP buffers
\* and event memory stay as they are; it moves to MONITORING exactly when,
\* after its pushes, both the band analyzer and the vibration tracker are
\* calibrated, so in the first such update and in none before.
C13_CalibratingUpdate ==
    [][CalibratingUpdate =>
          /\ calibrationSamples' = calibrationSamples + 1
          /\ vibBaselineCount' >= vibBaselineCount
          /\ UNCHANGED << smoothedScore, suggestedFeed, usingLearnedData,
                          lastAdvResult, dspAnalyzed, events,
                          chatterFreqHistogram, prefs >>
          /\ currentState' \in {"CALIBRATING", "MONITORING"}
          /\ (currentState' = "MONITORING") <=>
                (calibrationSamples' >= MIN_CALIBRATION_SAMPLES
                   /\ vibBaselineCount' >= VIB_MIN_BASELINE)]_vars

\* A re-calibration in which the vibration tracker, held back by non-finite
\* samples, calibrated after the band analyzer: the update that completed it
\* left the score, the DSP result and the DSP buffers of the earlier run
\* untouched.
C13_Witness ==
    /\ op = "update"
    /\ prevState = "CALIBRATING"
    /\ currentState = "MONITORING"
    /\ calibrationSamples > MIN_CALIBRATION_SAMPLES
    /\ vibBaselineCount = VIB_MIN_BASELINE
    /\ smoothedScore > 0
    /\ lastAdvResult = Loud.adv
    /\ dspAnalyzed = << Loud >>
    /\ Len(events) = 1

\* C14: the band analyzer reports calibrated exactly when at least 100
\* updateBaseline calls were made since its last init: not after init nor any
\* of the first 99 calls, and after the 100th and every later one.
C14_BandCalibration ==
    /\ calibrationSamples >= 0
    /\ calibrated <=> calibrationSamples >= MIN_CALIBRATION_SAMPLES
    /\ op \in {"init", "startCalibration"} => calibrationSamples = 0 /\ ~calibrated

\* The 101st updateBaseline call, made while the vibration tracker was still
\* short of samples: the band analyzer stays calibrated.
C14_Witness ==
    /\ op = "update"
    /\ prevState = "CALIBRATING"
    /\ currentState = "CALIBRATING"
    /\ calibrationSamples = MIN_CALIBRATION_SAMPLES + 1
    /\ calibrated

\* C15: startCalibration(), in whatever state, sets the state to CALIBRATING,
\* resets the band analyzer (no samples, uncalibrated) and the vibration
\* tracker (baseline and recent statistics empty) and leaves everything else:
\* events, histogram, flash, smoothed score, suggested feed, interventionFeed,
\* last-chatter time, RPM, feed rate, learned flag, DSP result and buffers.
C15_StartCalibration ==
    [][op' = "startCalibration" =>
          /\ currentState' = "CALIBRATING"
          /\ calibrationSamples' = 0
          /\ ~calibrated'
          /\ vibBaselineCount' = 0
          /\ ~vibRecentHasData'
          /\ UNCHANGED << events, chatterFreqHistogram, prefs, smoothedScore,
                          suggestedFeed, interventionFeed, lastChatterTime,
                          spindleRPM, feedRate, usingLearnedData, lastAdvResult,
                          dspAnalyzed, now >>]_vars

\* CAL arrived during chatter: the detector calibrates again and keeps its
\* score, its suggestion and the recorded event.
C15_Witness ==
    /\ op = "startCalibration"
    /\ prevState = "CHATTER"
    /\ currentState = "CALIBRATING"
    /\ calibrationSamples = 0
    /\ ~calibrated
    /\ vibBaselineCount = 0
    /\ ~vibRecentHasData
    /\ smoothedScore > 70
    /\ suggestedFeed = DEFAULT_REDUCTION
    /\ Len(events) = 1

\* C16: an event is mutated at most once: once the newest event is resolved,
\* no later update or confirmChatterResolved call changes it again or adds to
\* the histogram on its account, so its bin gets +1 for the recording and at
\* most one +2 for the confirmation.
C16_MutatedOnce ==
    [][(/\ op' \in {"update", "confirmChatterResolved"}
        /\ events # << >>
        /\ Newest(events).resolved
        /\ Len(events') = Len(events))
       => (events' = events /\ chatterFreqHistogram' = chatterFreqHistogram)]_vars

\* The bins getPredictedChatterRange scans
ScannedBins == 5..79

\* The range around bin b, clamped to [500, 8000] Hz
RangeAround(b) ==
    [lowHz |-> Max(500, (b - 5) * 100), highHz |-> Min(8000, (b + 5) * 100)]

\* b holds the highest count of the scanned bins and is the lowest such bin
IsPeak(hist, b) ==
    /\ \A j \in ScannedBins : hist[j] <= hist[b]
    /\ \A j \in ScannedBins : j < b => hist[j] < hist[b]

\* The histogram with every bin outside the scanned ones cleared
ScannedOnly(hist) ==
    [b \in 0..(HISTOGRAM_BINS - 1) |-> IF b \in ScannedBins THEN hist[b] ELSE 0]

\* C17: getPredictedChatterRange returns the range around the peak bin, the
\* lowest bin of 5..79 holding the highest count, clamped to [500, 8000];
\* when every bin of 5..79 is zero the peak bin is the default, bin 20, and
\* the range is [1500, 2500]. Always 500 <= low <= high <= 8000, and bins
\* 0..4 and 80..99 have no influence.
C17_PredictedRange ==
    LET r == getPredictedChatterRange(chatterFreqHistogram)
    IN  /\ IF \A b \in ScannedBins : chatterFreqHistogram[b] = 0
           THEN r = RangeAround(DEFAULT_PEAK_BIN) /\ r = [lowHz |-> 1500, highHz |-> 2500]
           ELSE \E b \in ScannedBins :
                   IsPeak(chatterFreqHistogram, b) /\ r = RangeAround(b)
        /\ 500 <= r.lowHz /\ r.lowHz <= r.highHz /\ r.highHz <= 8000
        /\ r = getPredictedChatterRange(ScannedOnly(chatterFreqHistogram))

\* Bin 7 holds one event and bin 82, which is not scanned, two: the range is
\* the one around bin 7, clamped at 500 Hz.
C17_Witness ==
    /\ chatterFreqHistogram[7] = 1
    /\ chatterFreqHistogram[82] = 2
    /\ getPredictedChatterRange(chatterFreqHistogram) = [lowHz |-> 500, highHz |-> 1200]

\* C17 as stated: the peak bin is always the lowest bin of 5..79 holding the
\* highest count, also when that count is zero.
C17_AsStated ==
    LET r == getPredictedChatterRange(chatterFreqHistogram)
    IN  /\ \E b \in ScannedBins :
              IsPeak(chatterFreqHistogram, b) /\ r = RangeAround(b)
        /\ 500 <= r.lowHz /\ r.lowHz <= r.highHz /\ r.highHz <= 8000
        /\ r = getPredictedChatterRange(ScannedOnly(chatterFreqHistogram))

\* A step that is a scoring update
ScoringUpdate == op' = "update" /\ currentState # "CALIBRATING"

\* C18: in every scoring update the raw score, after the boosts, lies in
\* [0, 100] when it is smoothed, the smoothed score becomes
\* 0.7 * smoothed + 0.3 * raw (to the resolution scores are stored in) and
\* stays in [0, 100].
C18_ScoreRange ==
    [][ScoringUpdate =>
          LET raw == RawScore(dspAnalyzed'[1], chatterFreqHistogram)
              mix == 700 * smoothedScore + 3 * raw
          IN  /\ raw >= 0 /\ raw <= 10000
              /\ smoothedScore' >= 0 /\ smoothedScore' <= 100
              /\ 1000 * smoothedScore' <= mix
              /\ mix < 1000 * (smoothedScore' + ScoreGrid)]_vars

\* A chatter cycle whose fused score of 92 the boosts carry to the clamp, on
\* top of a smoothed score that is already high.
C18_Witness ==
    /\ op = "update"
    /\ currentState = "CHATTER"
    /\ dspAnalyzed = << Loud >>
    /\ FusedScore(Loud) = 9200
    /\ RawScore(Loud, chatterFreqHistogram) = 10000
    /\ smoothedScore >= 80
    /\ smoothedScore <= 100

\* C19: a push of NaN, +Inf or -Inf leaves count, mean, M2, min and max of
\* the accumulator exactly as they were, whatever was pushed before.
C19_NonFiniteIgnored ==
    [][op' = "pushNonFinite" =>
          /\ stats'.n = stats.n
          /\ stats'.mean = stats.mean
          /\ stats'.M2 = stats.M2
          /\ stats'.minVal = stats.minVal
          /\ stats'.maxVal = stats.maxVal]_vars

\* A non-finite sample arrived after three finite ones that differ.
C19_Witness ==
    /\ op = "pushNonFinite"
    /\ stats.n = 3
    /\ stats.M2 > 0
    /\ stats.minVal = Finite(1000)
    /\ stats.maxVal = Finite(4000)

\* C20: getStatus() writes nothing: detector, analyzers, memory, flash and
\* clock are as before the call, and the snapshot a second call would return
\* is the one this call returned.
C20_StatusIsPure ==
    [][op' = "getStatus" =>
          /\ getStatus' = getStatus
          /\ UNCHANGED << currentState, smoothedScore, spindleRPM, feedRate,
                          suggestedFeed, interventionFeed, usingLearnedData,
                          lastChatterTime, lastAdvResult, dspAnalyzed,
                          calibrationSamples, calibrated, vibBaselineCount,
                          vibRecentHasData, events, chatterFreqHistogram,
                          prefs, now >>]_vars

\* The status was read during chatter, with the learned flag set by the
\* frequency range while no event is resolved yet.
C20_Witness ==
    /\ op = "getStatus"
    /\ getStatus.state = "CHATTER"
    /\ getStatus.score > 70
    /\ getStatus.learned
    /\ getStatus.learnedEvents = 0
    /\ getStatus.calibrationPct = 100
    /\ getStatus.suggestedFeedPct = DEFAULT_REDUCTION

\* The state changes the state machine allows update to make
UpdateTransitions ==
    { << "CALIBRATING", "MONITORING" >>,
      << "MONITORING", "WARNING" >>, << "MONITORING", "CHATTER" >>,
      << "WARNING", "CHATTER" >>, << "WARNING", "MONITORING" >>,
      << "CHATTER", "RECOVERING" >>,
      << "RECOVERING", "CHATTER" >>, << "RECOVERING", "MONITORING" >> }

\* C21: an update leaves the state as it is or makes one of the eight
\* transitions of the state machine; so it never enters CALIBRATING, leaves
\* CHATTER only to RECOVERING and enters WARNING only from MONITORING.
C21_UpdateTransitions ==
    [][op' = "update" =>
          /\ currentState' = currentState
                \/ << currentState, currentState' >> \in UpdateTransitions
          /\ currentState' = "CALIBRATING" => currentState = "CALIBRATING"
          /\ (currentState = "CHATTER" /\ currentState' # "CHATTER")
                => currentState' = "RECOVERING"
          /\ (currentState' = "WARNING" /\ currentState # "WARNING")
                => currentState = "MONITORING"]_vars

\* A run that has been through calibration, a warning, chatter and recovery
\* and is back in MONITORING with one event learned.
C21_Witness ==
    /\ op = "update"
    /\ prevState = "RECOVERING"
    /\ currentState = "MONITORING"
    /\ Len(events) = 1
    /\ events[1].resolved
    /\ now - lastChatterTime > RECOVERY_MS

\* C22: markResolved(r) on a memory with events sets resolved and
\* feedReduction = r on the newest event only, adds 2 to the histogram bin
\* of that event only and keeps the number of events; on an empty memory it
\* changes nothing and leaves the flash as it was. The detector is untouched.
C22_MarkResolvedFrame ==
    [][op' = "markResolved" =>
          /\ UNCHANGED detectorVars
          /\ Len(events') = Len(events)
          /\ events = << >> =>
                UNCHANGED << events, chatterFreqHistogram, prefs >>
          /\ events # << >> =>
                /\ Older(events') = Older(events)
                /\ \E r \in MemReductions :
                      Newest(events') =
                         [Newest(events) EXCEPT !.resolved = TRUE,
                                                !.feedReduction = r]
                /\ chatterFreqHistogram' =
                      [chatterFreqHistogram EXCEPT
                          ![FreqBin(Newest(events).frequency)] = @ + 2]]_vars

\* The second of two events, in another bin than the first, was marked
\* resolved: its bin holds 1 + 2, the bin of the first event still 1.
C22_Witness ==
    /\ op = "markResolved"
    /\ Len(events) = 2
    /\ ~events[1].resolved
    /\ events[2].resolved
    /\ events[2].feedReduction \in MemReductions
    /\ FreqBin(events[1].frequency) # FreqBin(events[2].frequency)
    /\ chatterFreqHistogram[FreqBin(events[2].frequency)] = 3
    /\ chatterFreqHistogram[FreqBin(events[1].frequency)] = 1

\* C23: in every scoring update, with the range predicted from the
\* histogram as it is when the update begins: if lowHz <= dominantFreq <=
\* highHz the raw score is multiplied by 1.25 (before the other boosts and the
\* clamp) and the learned flag becomes true; otherwise the raw score is not
\* boosted and the flag becomes "some event is resolved".
C23_LearnedBoost ==
    [][ScoringUpdate =>
          LET c == dspAnalyzed'[1]
              f == CycleDominantFreq(c)
              range == getPredictedChatterRange(chatterFreqHistogram)
              inside == range.lowHz <= f /\ f <= range.highHz
              r1 == IF inside THEN (FusedScore(c) * 125) \div 100
                              ELSE FusedScore(c)
              r2 == Boost(r1, c.adv.harmonicStrength > 60, 115)
              r3 == Boost(r2, c.adv.isGrowing /\ c.adv.isEngaged, 110)
              r4 == Boost(r3, c.adv.stallGuardScore > 50, 120)
          IN  /\ dominantFreq' = f
              /\ usingLearnedData' =
                    IF inside THEN TRUE ELSE getResolvedCount(events) > 0
              /\ smoothedScore' = Smooth(smoothedScore, Min(10000, r4))]_vars

\* After chatter at 1500 Hz was resolved the range is [1000, 2000]: a
\* moderate anomaly at 2500 Hz, the upper bound of the default range, is
\* outside, not boosted (0.3 * 40 on the grid), and the flag is true because
\* of the resolved event.
C23_Witness ==
    /\ op = "update"
    /\ prevState # "CALIBRATING"
    /\ dspAnalyzed = << Mild(2500) >>
    /\ getPredictedChatterRange(chatterFreqHistogram) =
          [lowHz |-> 1000, highHz |-> 2000]
    /\ getResolvedCount(events) = 1
    /\ usingLearnedData
    /\ smoothedScore = 10

\* C24: after any sequence of setSpindleRPM and setToolParams calls the
\* stability-lobe predictor's tooth-passing frequency is (current RPM x
\* current tooth count) / 60.
C24_ToothPassFreq ==
    advancedDSP.stabilityLobe.toothPassFreq =
       (advancedDSP.stabilityLobe.spindleRPM * advancedDSP.stabilityLobe.teeth * 1000)
          \div 60

\* C25: the fused score of analyze is 100 * (sum of feature * weight) / (sum
\* of the applied weights), with weights 30, 20, 15 and 10 always applied,
\* the stability-lobe weight 20 only if toothPassFreq > 10 and the stall
\* weight 25 only if some axis holds more than 10 stall-guard values; every
\* feature lies in [0, 1] and the fused score in [0, 100].
C25_FusedScore ==
    op = "analyze" =>
        LET r == dspTrace.result
            lobe == advancedDSP.stabilityLobe.toothPassFreq > 10 * 1000
            stall == \E a \in Axes : advancedDSP.stallGuard.sgCount[a] > 10
            num == 30 * r.harmonicStrength + 20 * r.spectralNarrowness
                     + 15 * r.freqStability + 10 * r.crestScore
                     + (IF lobe THEN 20 * r.stabilityLobeMatch ELSE 0)
                     + (IF stall THEN 25 * r.stallGuardScore ELSE 0)
            den == 30 + 20 + 15 + 10 + (IF lobe THEN 20 ELSE 0)
                      + (IF stall THEN 25 ELSE 0)
        IN  /\ \A k \in DOMAIN r : r[k] >= 0 /\ r[k] <= 100
            /\ dspTrace.chatterScore = num \div den
            /\ dspTrace.chatterScore >= 0
            /\ dspTrace.chatterScore <= 100

\* An analysis with a tooth-passing frequency of 20 Hz and exactly 10
\* stall-guard values on an axis: the oscillation score is computed (1.0) but
\* its weight is not applied; every other feature is 1.0 and the score 100.
C25_Witness ==
    /\ op = "analyze"
    /\ advancedDSP.stabilityLobe.toothPassFreq = 20 * 1000
    /\ advancedDSP.stallGuard.sgCount[0] = 10
    /\ dspTrace.result = ChatterFeatures
    /\ dspTrace.chatterScore = 100

\* Every head index is inside its buffer and every count at most the capacity
RingHeadsInRange ==
    /\ advancedDSP.crestAnalyzer.bufIdx \in 0..(CREST_BUFFER_SIZE - 1)
    /\ advancedDSP.crestAnalyzer.count \in 0..CREST_BUFFER_SIZE
    /\ advancedDSP.crossCorr.micIdx \in 0..(CORR_BUF_SIZE - 1)
    /\ advancedDSP.crossCorr.imuIdx \in 0..(CORR_BUF_SIZE - 1)
    /\ advancedDSP.freqTracker.histIdx \in 0..(HISTORY_SIZE - 1)
    /\ advancedDSP.freqTracker.count \in 0..HISTORY_SIZE
    /\ \A a \in Axes :
          /\ advancedDSP.stallGuard.sgIdx[a] \in 0..(SG_BUFFER_SIZE - 1)
          /\ advancedDSP.stallGuard.sgCount[a] \in 0..SG_BUFFER_SIZE

\* Every index the last call wrote or read at is inside its buffer
RingAccessInRange ==
    \A acc \in {dspTrace.writes, dspTrace.reads} :
        /\ acc.crest \subseteq 0..(CREST_BUFFER_SIZE - 1)
        /\ acc.mic \subseteq 0..(CORR_BUF_SIZE - 1)
        /\ acc.imu \subseteq 0..(CORR_BUF_SIZE - 1)
        /\ acc.tracker \subseteq 0..(HISTORY_SIZE - 1)
        /\ acc.sg \subseteq 0..(SG_BUFFER_SIZE - 1)

\* C26: whatever is pushed into the crest-factor (256), cross-correlator
\* (64), frequency-tracker (50) and stall-guard (32 per axis) buffers, every
\* index written or read stays in [0, capacity), every count stays at most
\* the capacity, and a stall-guard push with an axis outside 0..2 changes
\* nothing and touches no buffer.
C26_RingIndexes ==
    [][/\ RingHeadsInRange'
       /\ RingAccessInRange'
       /\ (op' = "pushStallGuard" /\ dspTrace'.axis \notin 0..2) =>
             /\ advancedDSP' = advancedDSP
             /\ dspTrace'.writes = NoAccess]_vars

\* All buffers have wrapped: 257 analyses, 33 values on axis 2, and the last
\* stall-guard push, for axis 3, was ignored.
C26_Witness ==
    /\ op = "pushStallGuard"
    /\ dspTrace.axis = 3
    /\ dspTrace.analyses = 257
    /\ advancedDSP.crestAnalyzer = [bufIdx |-> 1, count |-> CREST_BUFFER_SIZE]
    /\ advancedDSP.crossCorr = [micIdx |-> 1, imuIdx |-> 1]
    /\ advancedDSP.freqTracker = [histIdx |-> 7, count |-> HISTORY_SIZE]
    /\ advancedDSP.stallGuard.sgIdx[2] = 1
    /\ advancedDSP.stallGuard.sgCount[2] = SG_BUFFER_SIZE

\* C27: interventionFeed is assigned only by an update that begins in
\* CHATTER, which sets it to the feed rate of that moment; an update that
\* begins in another state (the one entering CHATTER included), setFeedRate,
\* setSpindleRPM and confirmChatterResolved leave it alone, and
\* confirmChatterResolved stores 100 - interventionFeed as the reduction.
C27_InterventionFeed ==
    [][/\ (op' = "update" /\ currentState = "CHATTER") =>
             interventionFeed' = feedRate
       /\ (op' = "update" /\ currentState # "CHATTER") =>
             interventionFeed' = interventionFeed
       /\ op' \in {"setFeedRate", "setSpindleRPM", "confirmChatterResolved"} =>
             interventionFeed' = interventionFeed
       /\ (op' = "confirmChatterResolved" /\ events # << >>) =>
             Newest(events').feedReduction = 100 - interventionFeed]_vars

\* The feed was 90 % in an update that began in CHATTER and was set back to
\* 100 % afterwards: the confirmation stores a reduction of 10 %.
C27_Witness ==
    /\ op = "confirmChatterResolved"
    /\ currentState = "CHATTER"
    /\ feedRate = 100
    /\ interventionFeed = 90
    /\ events # << >>
    /\ Newest(events).resolved
    /\ Newest(events).feedReduction = 10

\* C28: in a run without startCalibration, every scoring update that begins
\* in MONITORING begins with a smoothed score of at most 40 and does not end
\* in CHATTER; every entry into CHATTER is made from WARNING or RECOVERING.
C28_NoDirectChatter ==
    [][/\ (op' = "update" /\ currentState = "MONITORING") =>
             /\ smoothedScore <= 40
             /\ currentState' # "CHATTER"
       /\ (op' = "update" /\ currentState' = "CHATTER" /\ currentState # "CHATTER") =>
             currentState \in {"WARNING", "RECOVERING"}]_vars

\* After a chatter episode and a full recovery the detector was monitoring
\* with a smoothed score of 40, the highest it can hold there; the loudest
\* cycle then takes it to 0.7 * 40 + 0.3 * 100 (55 on the grid): a warning.
C28_Witness ==
    /\ op = "update"
    /\ prevState = "MONITORING"
    /\ currentState = "WARNING"
    /\ smoothedScore = 55
    /\ dspAnalyzed = << Loud >>
    /\ Len(events) >= 1
    /\ calls.recal = 0

\* C29: a calibration started by init or startCalibration, fed finite
\* vibration values only, counts its updates from 0; the detector is still
\* CALIBRATING after each of the first 99 updates and MONITORING after the
\* 100th, whatever the spectrum.
C29_CalibrationLength ==
    [][/\ op = "init" => currentState = "CALIBRATING" /\ calibrationSamples = 0
       /\ op' = "startCalibration" =>
             currentState' = "CALIBRATING" /\ calibrationSamples' = 0
       /\ CalibratingUpdate =>
             /\ calibrationSamples < MIN_CALIBRATION_SAMPLES
             /\ calibrationSamples' = calibrationSamples + 1
             /\ vibBaselineCount' = calibrationSamples'
             /\ calibrationSamples' < MIN_CALIBRATION_SAMPLES =>
                   currentState' = "CALIBRATING"
             /\ calibrationSamples' = MIN_CALIBRATION_SAMPLES =>
                   currentState' = "MONITORING"
       /\ (op' = "update" /\ currentState # "CALIBRATING") =>
             currentState' # "CALIBRATING"]_vars

\* The 100th update of a calibration that the CAL command started during
\* chatter: MONITORING, with 100 band samples and 100 vibration samples.
C29_Witness ==
    /\ op = "update"
    /\ prevState = "CALIBRATING"
    /\ currentState = "MONITORING"
    /\ calls.recal = 1
    /\ calibrationSamples = MIN_CALIBRATION_SAMPLES
    /\ vibBaselineCount = MIN_CALIBRATION_SAMPLES
    /\ run = "fresh"
    /\ smoothedScore > 70

\* C30: while the histogram is all zero the predicted range is
\* [1500, 2500]; a scoring update whose dominant frequency lies in it (bounds
\* included) multiplies the raw score by 1.25 and reports learned data,
\* although no event was ever recorded.
C30_DefaultRangeBoost ==
    [][(ScoringUpdate /\ chatterFreqHistogram = ZeroHistogram) =>
          /\ getPredictedChatterRange(chatterFreqHistogram) =
                [lowHz |-> 1500, highHz |-> 2500]
          /\ (dominantFreq' >= 1500 /\ dominantFreq' <= 2500) =>
                LET c == dspAnalyzed'[1]
                    boosted == (FusedScore(c) * 125) \div 100
                    r2 == Boost(boosted, c.adv.harmonicStrength > 60, 115)
                    r3 == Boost(r2, c.adv.isGrowing /\ c.adv.isEngaged, 110)
                    r4 == Boost(r3, c.adv.stallGuardScore > 50, 120)
                IN  /\ usingLearnedData'
                    /\ smoothedScore' = Smooth(smoothedScore, Min(10000, r4))]_vars

\* The first scoring update of a detector that has learned nothing, with a
\* moderate anomaly at 2500 Hz: boosted from 40 to 50 (0.3 * 50 = 15 smoothed)
\* and flagged as learned.
C30_Witness ==
    /\ op = "update"
    /\ prevState = "MONITORING"
    /\ dspAnalyzed = << Mild(2500) >>
    /\ dominantFreq = 2500
    /\ events = << >>
    /\ log = << >>
    /\ chatterFreqHistogram = ZeroHistogram
    /\ usingLearnedData
    /\ smoothedScore = 15

=============================================================================
